---- MODULE Spec2Model ----
(***************************************************************************)
(* Propagation engine of fmdtools: Model.propagate / Model.prop_static     *)
(* (src/fmdtools/define/model.py), Block.propagate                         *)
(* (src/fmdtools/define/block/base.py) and model construction              *)
(* (Model.add_flow / Model.add_fxn).                                       *)
(*                                                                         *)
(* A model is a set of function blocks connected by flows.  Every flow     *)
(* carries one field x; every block carries a state s and a set m of       *)
(* active fault modes.  The behaviours of the blocks are user code: they   *)
(* are drawn from a small library of deterministic behaviours.             *)
(***************************************************************************)
EXTENDS Integers, Sequences, FiniteSets, TLC

\* ------------------------------------------------------------------ bounds
\* number of calls (time steps) made on one model
MaxCalls == 2

\* pass ceiling of Model.prop_static ("if n>1000")
MaxPasses == 1000

\* ------------------------------------------------------- the architecture
\* add_fxn order of the blocks (Model.fxns is an insertion-ordered dict)
fxnorder == <<"A", "B", "C">>

Fxns == {"A", "B", "C"}

Flows == {"flow1", "flow2"}

Faults == {"short", "open"}

\* Model._fxnflows: the (function, flow) edges of the bipartite graph
fxnflows == {<<"A", "flow1">>, <<"B", "flow1">>, <<"B", "flow2">>, <<"C", "flow2">>}

\* the flows a block holds (Block.flows)
FlowsOf(f) == {fl \in Flows : <<f, fl>> \in fxnflows}

\* Model.bipartite.neighbors(flowname)
neighbors(fl) == {f \in Fxns : <<f, fl>> \in fxnflows}

\* the flow a behaviour reads and the flow it writes
FlowIn(f) == IF f = "C" THEN "flow2" ELSE "flow1"

FlowOut(f) == IF f = "A" THEN "flow1" ELSE "flow2"

\* architectures whose static behaviours settle within a few passes
LightConfigs ==
  { [dyn |-> [f \in Fxns |-> IF f = "A" THEN da ELSE "none"],
     stat |-> [f \in Fxns |-> IF f = "A" THEN sa ELSE IF f = "B" THEN sb ELSE sc],
     limit |-> 0] :
      da \in {"none", "write"}, sa \in {"none", "latch"},
      sb \in {"idle", "copy", "pulse"}, sc \in {"none", "read"} }

\* architectures that loop: togglers of a shared flow, counters around the ceiling
HeavyConfigs ==
  { [dyn |-> [f \in Fxns |-> "none"],
     stat |-> [f \in Fxns |-> IF f = "C" THEN "none" ELSE "toggle"],
     limit |-> 0] }
  \cup
  { [dyn |-> [f \in Fxns |-> "none"],
     stat |-> [f \in Fxns |-> IF f = "A" THEN "count" ELSE "none"],
     limit |-> l] : l \in {MaxPasses - 1, MaxPasses} }

Configs == LightConfigs \cup HeavyConfigs

VARIABLES
  cfg,            \* the behaviours of the blocks (fixed at construction)
  s,              \* block state            fxn.s
  m,              \* active faults          fxn.m.faults
  flows,          \* flow state             Model.flows[name].s
  flowstates,     \* Model._flowstates: recorded flow baseline ({} until first use)
  pc,             \* position of the running call
  call,           \* the running (or last) call: kind, time, fxnfaults, disturbances
  calls,          \* number of calls begun
  distqueue,      \* set_vars: overrides still to apply
  dynqueue,       \* propagate: blocks still to invoke in the dynamic pass
  activefxns,     \* prop_static: activefxns
  nextfxns,       \* prop_static: nextfxns
  passqueue,      \* prop_static: list(activefxns) still to visit in this pass
  flows_to_check, \* prop_static: flows_to_check
  n,              \* prop_static: n
  err,            \* the error delivered to the caller of the call
  dyncalls,       \* history: 'dynamic' invocations of each block in this call
  dynfaults,      \* history: faults handed to each block's 'dynamic' invocation
  statcalls,      \* history: static behaviours run in this call
  visited,        \* history: blocks visited so far in the current pass
  own,            \* history: blocks whose mutables changed over their invocation
  seen,           \* history: flows that differed from the baseline when looked at
  lastpass,       \* history: record of the last finished pass
  pre,            \* history: block and flow state when the call began
  copyrun,        \* Model.copy: the step of the original a copy is compared with
  blk,            \* Block.propagate: the block it runs on, its locals, its history
  bld,            \* construction: the flow objects the model and its blocks hold
  functionorder,  \* Model.functionorder
  arch,           \* Architecture.inject_faults, choose_rand_fault: calls made, last request
  cp,             \* Model.copy: the objects the copy holds, the blocks' containers
  pl,             \* faultprop.proplist: its position, its arguments, resultsdict
  fd,             \* FaultDomain: faults, and the rule applied last
  fs,             \* FaultSample: _scenarios, _times, and the call made last
  sr,             \* Simulable.get_scen_rate: the last call and what it delivered
  fn,             \* sample_times_even, sample_times_quad: the last call and its result
  prob,           \* BaseProblem: its constraints, and the call made last
  fp,             \* faultprop.propagate: the graph it runs on, its locals
  rof,            \* faultprop.runonefault: the two models it steps, its history
  pa,             \* ProblemArchitecture: its problems, their values and consistency
  simp,           \* SimpleProblem: variables, cached values, evaluations made
  app,            \* SampleApproach: the phase maps its objects hold
  scn             \* BaseSample: scenarios by name, and what get_scens delivered

vars == <<cfg, s, m, flows, flowstates, pc, call, calls, distqueue, dynqueue,
          activefxns, nextfxns, passqueue, flows_to_check, n, err,
          dyncalls, dynfaults, statcalls, visited, own, seen, lastpass, pre,
          copyrun, blk, bld, functionorder, arch, cp, pl, fd, fs, sr, fn, prob,
          fp, rof, pa, simp, app, scn>>

\* the variables Model.propagate, Block.propagate and the construction calls
\* neither read nor write
aux == <<functionorder, arch, cp, pl, fd, fs, sr, fn, prob>>

\* the variables of faultprop.propagate and runonefault, of the search
\* problems, of SampleApproach and of the named scenarios
ext == <<fp, rof, pa, simp, app, scn>>

\* the variables of the sampling classes
samplevars == <<fd, fs, sr>>

\* ---------------------------------------------------------------- helpers
Range(q) == {q[i] : i \in 1..Len(q)}

\* the elements of S in the order of the sequence q (an OrderedSet, a dict)
Ordered(q, S) == SelectSeq(q, LAMBDA x : x \in S)

\* every order in which a hash-ordered set can be listed
Perms(S) == {q \in [1..Cardinality(S) -> S] : \A i, j \in 1..Cardinality(S) : q[i] = q[j] => i = j}

\* Model.staticfxns (build): blocks with a static behaviour, in fxns order
staticfxns == {f \in Fxns : cfg.stat[f] # "none"}

\* Model.dynamicfxns (build): blocks with a dynamic behaviour, in fxns order
dynamicfxns == {f \in Fxns : cfg.dyn[f] # "none"}

\* Model.staticflows (build): flows with a static neighbour
staticflows == {fl \in Flows : \E f \in neighbors(fl) : f \in staticfxns}

\* Block.return_mutables: the block's containers other than p and sp
return_mutables(f) == <<s[f], m[f]>>

\* the block and flow state as one value
World == [s |-> s, m |-> m, flows |-> flows]

\* ------------------------------------------------------------- behaviours
\* a block's static behaviour (behavior / static_behavior): user code, a
\* deterministic function of the block's state, its faults and its flows
StaticBehavior(f, w) ==
  LET k == cfg.stat[f]
      i == FlowIn(f)
      o == FlowOut(f)
  IN CASE k = "copy"   -> [w EXCEPT !.flows[o] = IF w.m[f] # {} THEN 0 ELSE w.flows[i]]
       [] k = "read"   -> [w EXCEPT !.s[f] = w.flows[i]]
       [] k = "latch"  -> IF w.flows[i] = 1 THEN [w EXCEPT !.s[f] = 1] ELSE w
       [] k = "pulse"  -> IF w.s[f] = 0
                          THEN [w EXCEPT !.flows[i] = 1, !.s[f] = 1]
                          ELSE [w EXCEPT !.flows[i] = 0]
       [] k = "toggle" -> [w EXCEPT !.flows[i] = 1 - w.flows[i]]
       [] k = "count"  -> IF w.s[f] < cfg.limit THEN [w EXCEPT !.s[f] = w.s[f] + 1] ELSE w
       [] OTHER        -> w

\* a block's dynamic behaviour (dynamic_behavior): user code, run once per step
DynamicBehavior(f, w, time) ==
  LET k == cfg.dyn[f]
      o == FlowOut(f)
  IN CASE k = "write" -> [w EXCEPT !.flows[o] = IF w.m[f] # {} THEN 0 ELSE 1]
       [] OTHER       -> w

\* fxn(proptype, faults=..., time=...): the faults are merged into the mode's
\* active set, then the behaviour of that propagation type runs, if the block has one
CallBlock(f, proptype, faults, time, w) ==
  LET w1 == [w EXCEPT !.m[f] = w.m[f] \cup faults]
  IN IF proptype = "dynamic"
     THEN IF cfg.dyn[f] # "none" THEN DynamicBehavior(f, w1, time) ELSE w1
     ELSE IF cfg.stat[f] # "none" THEN StaticBehavior(f, w1) ELSE w1

\* ------------------------------------------------------------------ inputs
\* fxnfaults of a propagate call: a dict, here the list of its (key, value) items
FaultChoices == { <<>>, << <<"A", {"short"}>> >>, << <<"B", {"short"}>> >> }

\* disturbances of a propagate call: the list of its (path, value) items
DistChoices ==
  { <<>>,
    << <<(<<"flow2", "x">>), 1>> >>,
    << <<(<<"fxns", "C", "s">>), 1>>, <<(<<"bogus", "x">>), 1>> >> }

\* fxnfaults.keys()
Keys(ff) == {ff[i][1] : i \in 1..Len(ff)}

\* fxnfaults.get(fxnname, [])
GetFaults(ff, f) == IF \E i \in 1..Len(ff) : ff[i][1] = f
                    THEN (CHOOSE e \in Range(ff) : e[1] = f)[2]
                    ELSE {}

\* ---------------------------------------------------------------- errors
NoErr == [kind |-> "none", time |-> 0, reports |-> {}, active |-> {}, context |-> "none"]

\* mutant: a path that names nothing is taken as the field of the first flow
Resolve_Lenient(var) == [ok |-> TRUE, kind |-> "flow", name |-> "flow1"]

\* set_vars: the object and the field a path names, "invalid" when it names none
Resolve(var) ==
  LET rest(k) == SubSeq(var, k, Len(var))
      obj(name, r) ==
        IF name \in Fxns /\ r = <<"s">> THEN [ok |-> TRUE, kind |-> "fxn", name |-> name]
        ELSE IF name \in Flows /\ r = <<"x">> THEN [ok |-> TRUE, kind |-> "flow", name |-> name]
        ELSE [ok |-> FALSE, kind |-> "invalid", name |-> name]
  IN IF Len(var) = 0 THEN [ok |-> FALSE, kind |-> "invalid", name |-> ""]
     ELSE IF var[1] \in {"functions", "fxns"}
          THEN IF Len(var) >= 2 /\ var[2] \in Fxns THEN obj(var[2], rest(3))
               ELSE [ok |-> FALSE, kind |-> "invalid", name |-> ""]
     ELSE IF var[1] = "flows"
          THEN IF Len(var) >= 2 /\ var[2] \in Flows THEN obj(var[2], rest(3))
               ELSE [ok |-> FALSE, kind |-> "invalid", name |-> ""]
     ELSE IF var[1] \in Fxns \cup Flows THEN obj(var[1], rest(2))
     ELSE [ok |-> FALSE, kind |-> "invalid", name |-> var[1]]

\* set_var(f, var, value) on a resolved path
SetVarIn(w, r, val) ==
  IF r.kind = "fxn" THEN [w EXCEPT !.s[r.name] = val]
  ELSE [w EXCEPT !.flows[r.name] = val]

\* ------------------------------------------------------------ Model state
\* no fault has been injected through the architecture or chosen by a block
NoInjection == [calls |-> 0, requested |-> {}, raised |-> FALSE]

\* no Model.copy() was made; container i is the one of the i-th block of the
\* original, and the containers after them are those of a copy's blocks
NoModelCopy ==
  [made |-> FALSE,
   flows |-> [fl \in Flows |-> 0],
   fxns |-> [f \in Fxns |-> [fl \in Flows |-> 0]],
   state |-> [f \in Fxns |-> 0],
   sheap |-> [i \in 1..Len(fxnorder) |-> 0]]

\* faultprop.propagate has not been called
NoFaultprop == [stage |-> "idle"]

\* runonefault has not been called
NoRun == [stage |-> "idle"]

\* ProblemArchitecture(): no problem has been added; a value is <<v>>, and
\* <<>> for NaN
EmptyArchitecture ==
  [problems |-> <<>>,
   consistent |-> [p \in {"p1", "p2", "p3"} |-> FALSE],
   xloc |-> [p \in {"p1", "p2", "p3"} |-> 0],
   value |-> [p \in {"p1", "p2", "p3"} |-> <<>>],
   objectives |-> [p \in {"p1", "p2", "p3"} |-> <<>>],
   evals |-> <<>>,
   before |-> [p \in {"p1", "p2", "p3"} |-> FALSE],
   last |-> [op |-> "none", name |-> ""]]

\* SimpleProblem("x0") with an objective f1 and a constraint g1: nothing has
\* been called, the variable and the values are NaN
NoSimpleProblem ==
  [x |-> <<>>, f1 |-> <<>>, g1 |-> <<>>, calls |-> 0,
   last |-> [op |-> "none", x |-> 0, new |-> FALSE, raised |-> FALSE, evaluated |-> <<>>,
             returned |-> <<>>]]

\* the module has been loaded and no SampleApproach has been made: the dict
\* that is the default value of phasemaps is the first dict of the heap, and
\* it is empty
NoApproach ==
  [dicts |-> << [k \in {"mdl", "extra"} |-> "none"] >>,
   objs |-> <<>>]

\* a sample without scenarios, get_scens not called
NoScenarios == [scenarios |-> <<>>, got |-> {}, called |-> FALSE]

\* proplist has not been called; resultsdict lists endresults by scenario
NoProplist ==
  [stage |-> "idle", reuse |-> FALSE, order |-> <<>>, i |-> 0, resultsdict |-> <<>>, made |-> 0]

\* FaultDomain.__init__: faults = {}; no rule has been applied (rule 0)
EmptyDomain == [faults |-> <<>>, last |-> 0, repeated |-> FALSE, raised |-> FALSE, sel |-> {}]

\* FaultSample.__init__: _scenarios = [], _times = set(), the phase map (none:
\* <<>>); no call has been made
EmptySample ==
  [scenarios |-> <<>>, times |-> {}, calls |-> 0, raised |-> FALSE, phasemap |-> <<>>]

\* get_scen_rate has not been called
NoRate == [called |-> FALSE, fault |-> <<>>, rate |-> <<0, 1>>, raised |-> FALSE]

\* neither sample_times_even nor sample_times_quad has been called
NoSampleTimes ==
  [op |-> "none", times |-> <<>>, numpts |-> 0, dt |-> 1, nodes |-> <<>>, weights |-> <<>>,
   raised |-> FALSE, sampletimes |-> <<>>, outweights |-> <<>>]

\* BaseProblem.__init__: constraints = {}
EmptyProblem ==
  [constraints |-> [name \in {} |-> 0], last |-> "none", raised |-> FALSE, calls |-> 0]

\* no copy of the model has been stepped
NoCopy == [stage |-> "original", result |-> <<>>, calls |-> 0]

\* Block.propagate has not been called
NoBlockCall ==
  [pc |-> "idle", f |-> "A", time |-> 0, faults |-> {}, dist |-> <<>>,
   oldmutables |-> <<0, {}>>, flows_mutables |-> <<>>,
   calls |-> 0, ndyn |-> 0, nstat |-> 0, quiet |-> FALSE, failed |-> FALSE]

\* the flow objects of the built model: object 1 is flow1, object 2 is flow2,
\* and every block holds the objects of the flows it is connected to
BuiltModel ==
  [flows |-> [fl \in Flows |-> IF fl = "flow1" THEN 1 ELSE 2],
   fxns |-> [f \in Fxns |-> [fl \in Flows |->
               IF <<f, fl>> \in fxnflows THEN (IF fl = "flow1" THEN 1 ELSE 2) ELSE 0]],
   heap |-> <<0, 0>>,
   added |-> Fxns,
   fxnflows |-> fxnflows,
   readded |-> 0,
   built |-> "ok",
   require_connections |-> TRUE]

NoPass == [n |-> 0, active |-> {}, order |-> <<>>, own |-> {}, seen |-> {}, next |-> {}]

NoCall == [kind |-> "none", time |-> 0, fxnfaults |-> <<>>, disturbances |-> <<>>]

\* Model.__init__, add_flow, add_fxn, build: default states, no faults, no baseline
Init ==
  /\ cfg \in Configs
  /\ s = [f \in Fxns |-> 0]
  /\ m = [f \in Fxns |-> {}]
  /\ flows = [fl \in Flows |-> 0]
  /\ flowstates = <<>>
  /\ pc = "idle"
  /\ call = NoCall
  /\ calls = 0
  /\ distqueue = <<>>
  /\ dynqueue = <<>>
  /\ activefxns = {}
  /\ nextfxns = {}
  /\ passqueue = <<>>
  /\ flows_to_check = {}
  /\ n = 0
  /\ err = NoErr
  /\ dyncalls = [f \in Fxns |-> 0]
  /\ dynfaults = [f \in Fxns |-> {}]
  /\ statcalls = 0
  /\ visited = <<>>
  /\ own = {}
  /\ seen = {}
  /\ lastpass = NoPass
  /\ pre = [s |-> [f \in Fxns |-> 0], m |-> [f \in Fxns |-> {}], flows |-> [fl \in Flows |-> 0]]
  /\ copyrun = NoCopy
  /\ blk = NoBlockCall
  /\ bld = BuiltModel
  /\ functionorder = fxnorder
  /\ arch = NoInjection
  /\ cp = NoModelCopy
  /\ pl = NoProplist
  /\ fd = EmptyDomain
  /\ fs = EmptySample
  /\ sr = NoRate
  /\ fn = NoSampleTimes
  /\ prob = EmptyProblem
  /\ fp = NoFaultprop
  /\ rof = NoRun
  /\ pa = EmptyArchitecture
  /\ simp = NoSimpleProblem
  /\ app = NoApproach
  /\ scn = NoScenarios

\* the block and flow state become w
SetWorld(w) == s' = w.s /\ m' = w.m /\ flows' = w.flows

\* a call begins: its history is empty
BeginHistory ==
  /\ dyncalls' = [f \in Fxns |-> 0]
  /\ dynfaults' = [f \in Fxns |-> {}]
  /\ statcalls' = 0
  /\ visited' = <<>>
  /\ own' = {}
  /\ seen' = {}
  /\ lastpass' = NoPass
  /\ pre' = World

\* -------------------------------------------------------- Model.propagate
\* propagate(time, fxnfaults, disturbances) is called
Propagate(ff, dd) ==
  /\ pc = "idle"
  /\ calls < MaxCalls
  /\ call' = [kind |-> "propagate", time |-> calls, fxnfaults |-> ff, disturbances |-> dd]
  /\ calls' = calls + 1
  /\ pc' = "set_vars"
  /\ distqueue' = dd
  /\ err' = NoErr
  /\ BeginHistory
  /\ UNCHANGED aux
  /\ UNCHANGED <<copyrun, blk, bld, cfg, ext, s, m, flows, flowstates, dynqueue, activefxns, nextfxns,
                 passqueue, flows_to_check, n>>

\* mutant: an invalid path undoes the overrides made before it
SetVar_RollsBack ==
  /\ pc = "set_vars"
  /\ distqueue # <<>>
  /\ LET var == Head(distqueue)[1]
         val == Head(distqueue)[2]
         r == Resolve(var)
     IN IF r.ok
        THEN /\ SetWorld(SetVarIn(World, r, val))
             /\ distqueue' = Tail(distqueue)
             /\ UNCHANGED <<pc, err>>
        ELSE /\ pc' = "raised"
             /\ err' = [kind |-> "set_vars", time |-> call.time, reports |-> {"path"},
                        active |-> {}, context |-> "none"]
             /\ SetWorld(pre)
             /\ UNCHANGED distqueue
  /\ UNCHANGED aux
  /\ UNCHANGED <<copyrun, blk, bld, cfg, ext, flowstates, call, calls, dynqueue, activefxns, nextfxns,
                 passqueue, flows_to_check, n,
                 dyncalls, dynfaults, statcalls, visited, own, seen, lastpass, pre>>

\* Step 0, set_vars(**disturbances): one pass of its loop over the variables
SetVar ==
  /\ pc = "set_vars"
  /\ distqueue # <<>>
  /\ LET var == Head(distqueue)[1]
         val == Head(distqueue)[2]
         r == Resolve(var)
     IN IF r.ok
        THEN /\ SetWorld(SetVarIn(World, r, val))
             /\ distqueue' = Tail(distqueue)
             /\ UNCHANGED <<pc, err>>
        ELSE /\ pc' = "raised"
             /\ err' = [kind |-> "set_vars", time |-> call.time, reports |-> {"path"},
                        active |-> {}, context |-> "none"]
             /\ UNCHANGED <<s, m, flows, distqueue>>
  /\ UNCHANGED aux
  /\ UNCHANGED <<copyrun, blk, bld, cfg, ext, flowstates, call, calls, dynqueue, activefxns, nextfxns,
                 passqueue, flows_to_check, n,
                 dyncalls, dynfaults, statcalls, visited, own, seen, lastpass, pre>>

\* mutant: only the blocks that have faults scheduled are invoked
DynamicOrder_FaultedOnly(ff) == [i \in 1..Len(ff) |-> ff[i][1]]

\* mutant: the blocks that have faults scheduled come first
DynamicOrder_KeysFirst(ff) ==
  [i \in 1..Len(ff) |-> ff[i][1]]
    \o SelectSeq(Ordered(fxnorder, dynamicfxns), LAMBDA f : f \notin Keys(ff))

\* self.dynamicfxns.union(fxnfaults.keys()): an OrderedSet, the dynamic blocks
\* first, then the other blocks that have faults scheduled
DynamicOrder(ff) ==
  Ordered(fxnorder, dynamicfxns)
    \o SelectSeq([i \in 1..Len(ff) |-> ff[i][1]], LAMBDA f : f \notin dynamicfxns)

\* set_vars has returned: Step 1 begins
SetVarsDone ==
  /\ pc = "set_vars"
  /\ distqueue = <<>>
  /\ pc' = "dynamic"
  /\ dynqueue' = DynamicOrder(call.fxnfaults)
  /\ UNCHANGED aux
  /\ UNCHANGED <<copyrun, blk, bld, cfg, ext, s, m, flows, flowstates, call, calls, distqueue, activefxns,
                 nextfxns, passqueue, flows_to_check, n, err,
                 dyncalls, dynfaults, statcalls, visited, own, seen, lastpass, pre>>

\* Step 1: "fxn = self.fxns[fxnname]", a KeyError for a name that is not a
\* block of the model, then fxn('dynamic', faults=faults, time=time)
Dynamic ==
  /\ pc = "dynamic"
  /\ dynqueue # <<>>
  /\ LET f == Head(dynqueue)
         faults == GetFaults(call.fxnfaults, f)
     IN IF f \in Fxns
        THEN /\ SetWorld(CallBlock(f, "dynamic", faults, call.time, World))
             /\ dyncalls' = [dyncalls EXCEPT ![f] = @ + 1]
             /\ dynfaults' = [dynfaults EXCEPT ![f] = faults]
             /\ dynqueue' = Tail(dynqueue)
             /\ UNCHANGED <<pc, err>>
        ELSE /\ pc' = "raised"
             /\ err' = [kind |-> "KeyError", time |-> call.time, reports |-> {"name"},
                        active |-> {}, context |-> "none"]
             /\ UNCHANGED <<s, m, flows, dyncalls, dynfaults, dynqueue>>
  /\ UNCHANGED aux
  /\ UNCHANGED <<copyrun, blk, bld, cfg, ext, flowstates, call, calls, distqueue, activefxns, nextfxns,
                 passqueue, flows_to_check, n,
                 statcalls, visited, own, seen, lastpass, pre>>

\* ------------------------------------------------------ Model.prop_static
\* mutant: the first pass visits the static blocks in reverse
FirstPass_Reversed ==
  LET q == Ordered(fxnorder, staticfxns) IN [i \in 1..Len(q) |-> q[Len(q) + 1 - i]]

\* list(self.staticfxns.copy()): the first pass visits the static blocks in
\* the order of the OrderedSet
FirstPass == Ordered(fxnorder, staticfxns)

\* list(activefxns) for activefxns = nextfxns.copy(), a built-in set of str:
\* its iteration order is the hash order, which differs from run to run
PassOrders(active) == Perms(active)

\* mutant: every neighbour of the flow, static or not
StaticNeighbors_All(fl) == neighbors(fl)

\* the static blocks connected to a flow
StaticNeighbors(fl) == {f \in neighbors(fl) : f \in staticfxns}

\* mutant: a block's own change does not keep it active
OwnNext_Never(f, old, w) == {}

\* "if oldmutables != self.fxns[fxnname].return_mutables(): nextfxns.update([fxnname])"
OwnNext(f, old, w) == IF old # <<w.s[f], w.m[f]>> THEN {f} ELSE {}

\* the flows among fls whose state differs from the recorded baseline
ChangedFlows(fls, w) == {fl \in fls : flowstates[fl] # w.flows[fl]}

\* mutant: the ceiling is hit one pass early
TooManyPasses_Early(k) == k >= MaxPasses

\* "if n>1000"
TooManyPasses(k) == k > MaxPasses

\* mutant: dict.fromkeys(self.staticflows) on every call, its values never filled
RecordedBaseline_Unfilled == [fl \in staticflows |-> -1]

\* "if not self._flowstates": the baseline is recorded on first use only
RecordedBaseline ==
  IF DOMAIN flowstates = {}
  THEN [fl \in staticflows |-> flows[fl]]
  ELSE flowstates

\* the lines of prop_static before its loop, and the test of "while activefxns"
BeginStatic ==
  /\ activefxns' = staticfxns
  /\ nextfxns' = {}
  /\ flowstates' = RecordedBaseline
  /\ n' = 0
  /\ IF staticfxns = {}
     THEN pc' = "idle" /\ UNCHANGED <<passqueue, flows_to_check>>
     ELSE pc' = "static" /\ passqueue' = FirstPass /\ flows_to_check' = staticflows

\* the dynamic pass is over: Step 2, self.prop_static(time)
DynamicDone ==
  /\ pc = "dynamic"
  /\ dynqueue = <<>>
  /\ BeginStatic
  /\ UNCHANGED aux
  /\ UNCHANGED <<copyrun, blk, bld, cfg, ext, s, m, flows, call, calls, distqueue, dynqueue, err,
                 dyncalls, dynfaults, statcalls, visited, own, seen, lastpass, pre>>

\* prop_static(time) is called by itself
PropStatic ==
  /\ pc = "idle"
  /\ calls < MaxCalls
  /\ call' = [kind |-> "prop_static", time |-> IF calls = 0 THEN 0 ELSE call.time,
              fxnfaults |-> <<>>, disturbances |-> <<>>]
  /\ calls' = calls + 1
  /\ err' = NoErr
  /\ BeginHistory
  /\ BeginStatic
  /\ UNCHANGED aux
  /\ UNCHANGED <<copyrun, blk, bld, cfg, ext, s, m, flows, distqueue, dynqueue>>

\* one pass of "for fxnname in list(activefxns).copy()"
StaticVisit ==
  /\ pc = "static"
  /\ passqueue # <<>>
  /\ LET f == Head(passqueue)
         old == return_mutables(f)
         w == CallBlock(f, "static", {}, call.time, World)
         chg == ChangedFlows(FlowsOf(f) \cap flows_to_check, w)
     IN /\ SetWorld(w)
        /\ nextfxns' = nextfxns \cup OwnNext(f, old, w)
                                \cup UNION {StaticNeighbors(fl) : fl \in chg}
        /\ flows_to_check' = flows_to_check \ chg
        /\ own' = own \cup (IF old # <<w.s[f], w.m[f]>> THEN {f} ELSE {})
        /\ seen' = seen \cup {fl \in Flows : <<f, fl>> \in fxnflows
                                              /\ fl \in DOMAIN flowstates
                                              /\ flowstates[fl] # w.flows[fl]}
        /\ visited' = Append(visited, f)
        /\ statcalls' = statcalls + 1
  /\ passqueue' = Tail(passqueue)
  /\ UNCHANGED aux
  /\ UNCHANGED <<copyrun, blk, bld, cfg, ext, flowstates, pc, call, calls, distqueue, dynqueue, activefxns,
                 n, err, dyncalls, dynfaults, lastpass, pre>>

\* raise Exception("Undesired looping ...", "at t=..., these functions remain active:...")
StaticError(active) ==
  [kind |-> "looping", time |-> call.time, reports |-> {"time", "active"},
   active |-> active, context |-> "none"]

\* propagate: "except Exception as e: raise Exception("Error in static
\* propagation at time t="+str(time))"; e stays behind as the implicit context
PropagateError(e) ==
  [kind |-> "static propagation", time |-> call.time, reports |-> {"time"},
   active |-> {}, context |-> e.kind]

\* the end of a pass: the flows not yet checked, the new baseline, the next
\* active set, the pass count and its ceiling, and the test of the while loop
EndPass ==
  /\ pc = "static"
  /\ passqueue = <<>>
  /\ LET rem == ChangedFlows(flows_to_check, World)
         nx == nextfxns \cup UNION {StaticNeighbors(fl) : fl \in rem}
     IN /\ flowstates' = [fl \in DOMAIN flowstates |->
                            IF fl \in staticflows THEN flows[fl] ELSE flowstates[fl]]
        /\ activefxns' = nx
        /\ nextfxns' = {}
        /\ n' = n + 1
        /\ lastpass' = [n |-> n + 1, active |-> activefxns, order |-> visited,
                        own |-> own,
                        seen |-> seen \cup {fl \in DOMAIN flowstates : flowstates[fl] # flows[fl]},
                        next |-> nx]
        /\ visited' = <<>>
        /\ own' = {}
        /\ seen' = {}
        /\ IF TooManyPasses(n + 1)
           THEN /\ pc' = "raised"
                /\ err' = IF call.kind = "propagate"
                          THEN PropagateError(StaticError(nx))
                          ELSE StaticError(nx)
                /\ UNCHANGED <<passqueue, flows_to_check>>
           ELSE IF nx = {}
           THEN /\ pc' = "idle"
                /\ UNCHANGED <<passqueue, flows_to_check, err>>
           ELSE /\ pc' = "static"
                /\ passqueue' \in PassOrders(nx)
                /\ flows_to_check' = staticflows
                /\ UNCHANGED err
  /\ UNCHANGED aux
  /\ UNCHANGED <<copyrun, blk, bld, cfg, ext, s, m, flows, call, calls, distqueue, dynqueue,
                 dyncalls, dynfaults, statcalls, pre>>

Next ==
  \/ \E ff \in FaultChoices, dd \in DistChoices : Propagate(ff, dd)
  \/ SetVar
  \/ SetVarsDone
  \/ Dynamic
  \/ DynamicDone
  \/ PropStatic
  \/ StaticVisit
  \/ EndPass

Spec == Init /\ [][Next]_vars

\* the fault schedules of a propagate call, fault-only blocks, several blocks
\* and names that are no block of the model among them
FxnFaultChoices ==
  { << <<"A", {"short"}>> >>,
    << <<"C", {"open"}>>, <<"B", {"short"}>> >>,
    << <<"D", {"short"}>> >>,
    << <<"D", {"short"}>>, <<"C", {"open"}>> >>,
    << <<"B", {"short"}>>, <<"D", {"open"}>> >> }

NextFxnFaults ==
  \/ \E ff \in FxnFaultChoices, dd \in DistChoices : Propagate(ff, dd)
  \/ SetVar
  \/ SetVarsDone
  \/ Dynamic
  \/ DynamicDone
  \/ StaticVisit
  \/ EndPass

\* the architectures that settle
InitFxnFaults == Init /\ cfg \in LightConfigs

SpecFxnFaults == InitFxnFaults /\ [][NextFxnFaults]_vars

\* the variables of a running Model.propagate / prop_static call
callvars == <<flowstates, pc, call, calls, distqueue, dynqueue, activefxns, nextfxns,
              passqueue, flows_to_check, n, err,
              dyncalls, dynfaults, statcalls, visited, own, seen, lastpass, pre>>

\* ------------------------------------------------------------- Model.copy
\* copy = Model.copy() taken before the last propagate call, then stepped with
\* the time, faults and disturbances of that call: the copy's flows and blocks
\* carry the state the original had, and __init__ gave it an empty _flowstates
StepCopy ==
  /\ pc = "idle"
  /\ call.kind = "propagate"
  /\ copyrun.stage = "original"
  /\ copyrun' = [stage |-> "copy", result |-> World, calls |-> calls]
  /\ SetWorld(pre)
  /\ flowstates' = <<>>
  /\ pc' = "set_vars"
  /\ distqueue' = call.disturbances
  /\ err' = NoErr
  /\ dyncalls' = [f \in Fxns |-> 0]
  /\ dynfaults' = [f \in Fxns |-> {}]
  /\ statcalls' = 0
  /\ visited' = <<>>
  /\ own' = {}
  /\ seen' = {}
  /\ lastpass' = NoPass
  /\ UNCHANGED aux
  /\ UNCHANGED <<blk, bld, cfg, ext, call, calls, dynqueue, activefxns, nextfxns,
                 passqueue, flows_to_check, n, pre>>

NextCopy == Next \/ StepCopy

SpecCopy == Init /\ [][NextCopy]_vars

\* -------------------------------------------------------- Block.propagate
\* disturbances of a Block.propagate call: the list of its (variable, value) items
BlockDistChoices ==
  { <<>>,
    << <<(<<"s">>), 1>> >>,
    << <<(<<"s">>), 1>>, <<(<<"bogus">>), 1>> >> }

\* largest count the history of static invocations keeps
MaxBlockRuns == MaxPasses + 2

\* fxn.propagate(time, faults, disturbances) is called on block f of the model
BlockPropagate(f, ff, dd) ==
  /\ blk.pc \in {"idle", "done"}
  /\ blk.calls < MaxCalls
  /\ blk' = [pc |-> "set_var", f |-> f, time |-> blk.calls,
             faults |-> GetFaults(ff, f), dist |-> dd,
             oldmutables |-> <<0, {}>>, flows_mutables |-> <<>>,
             calls |-> blk.calls + 1, ndyn |-> 0, nstat |-> 0,
             quiet |-> FALSE, failed |-> FALSE]
  /\ UNCHANGED aux
  /\ UNCHANGED <<copyrun, bld, cfg, ext, s, m, flows>>
  /\ UNCHANGED callvars

\* Step 0: "for var, val in disturbances.items(): set_var(self, var, val)"
BlockSetVar ==
  /\ blk.pc = "set_var"
  /\ blk.dist # <<>>
  /\ LET var == Head(blk.dist)[1]
         val == Head(blk.dist)[2]
     IN IF var = <<"s">>
        THEN /\ s' = [s EXCEPT ![blk.f] = val]
             /\ blk' = [blk EXCEPT !.dist = Tail(blk.dist)]
        ELSE /\ blk' = [blk EXCEPT !.pc = "raised", !.failed = TRUE]
             /\ UNCHANGED s
  /\ UNCHANGED aux
  /\ UNCHANGED <<copyrun, bld, cfg, ext, m, flows>>
  /\ UNCHANGED callvars

\* Block.is_dynamic
is_dynamic(f) == cfg.dyn[f] # "none"

\* Block.is_static
is_static(f) == cfg.stat[f] # "none"

\* Step 1: the dynamic behaviour, if the block has one; then the values the
\* static loop starts from: oldmutables and flows_mutables
BlockDynamic ==
  /\ blk.pc = "set_var"
  /\ blk.dist = <<>>
  /\ LET f == blk.f
         w == IF is_dynamic(f)
              THEN CallBlock(f, "dynamic", blk.faults, blk.time, World)
              ELSE World
     IN /\ SetWorld(w)
        /\ blk' = [blk EXCEPT !.pc = "static",
                              !.ndyn = IF is_dynamic(f) THEN blk.ndyn + 1 ELSE blk.ndyn,
                              !.oldmutables = <<w.s[f], w.m[f]>>,
                              !.flows_mutables = [fl \in FlowsOf(f) |-> w.flows[fl]]]
  /\ UNCHANGED aux
  /\ UNCHANGED <<copyrun, bld, cfg, ext>>
  /\ UNCHANGED callvars

\* mutant: only the block's own mutables keep the loop going
StillActive_OwnOnly(f, oldm, oldf, w) == oldm # <<w.s[f], w.m[f]>>

\* the value of "active" at the end of one pass of the while loop
StillActive(f, oldm, oldf, w) ==
  \/ oldm # <<w.s[f], w.m[f]>>
  \/ \E fl \in FlowsOf(f) : oldf[fl] # w.flows[fl]

\* Step 2: one pass of "while active": the static behaviour, if the block has
\* one, then the comparison with the mutables recorded before it
BlockStatic ==
  /\ blk.pc = "static"
  /\ LET f == blk.f
         w == IF is_static(f)
              THEN CallBlock(f, "static", blk.faults, blk.time, World)
              ELSE World
         active == StillActive(f, blk.oldmutables, blk.flows_mutables, w)
     IN /\ SetWorld(w)
        /\ blk' = [blk EXCEPT
                     !.pc = IF active THEN "static" ELSE "done",
                     !.oldmutables = <<w.s[f], w.m[f]>>,
                     !.flows_mutables = [fl \in FlowsOf(f) |-> w.flows[fl]],
                     !.nstat = IF blk.nstat < MaxBlockRuns THEN blk.nstat + 1 ELSE blk.nstat,
                     !.quiet = /\ w.s[f] = s[f]
                               /\ w.m[f] = m[f]
                               /\ \A fl \in Flows : <<f, fl>> \in fxnflows => w.flows[fl] = flows[fl]]
  /\ UNCHANGED aux
  /\ UNCHANGED <<copyrun, bld, cfg, ext>>
  /\ UNCHANGED callvars

NextBlock ==
  \/ \E f \in Fxns, ff \in FaultChoices, dd \in BlockDistChoices : BlockPropagate(f, ff, dd)
  \/ BlockSetVar
  \/ BlockDynamic
  \/ BlockStatic

SpecBlock == Init /\ [][NextBlock]_vars

\* ------------------------------------------- Model.add_flow, Model.add_fxn
\* number of flow objects made while a model is put together
MaxObjects == 3

\* number of add_fxn calls made with a name that is a function already
MaxReAdd == 0

\* Model.__init__: no flows, no functions (0: the name is not bound)
\* and no edge in _fxnflows; no graph has been built
EmptyModel ==
  [flows |-> [fl \in Flows |-> 0],
   fxns |-> [f \in Fxns |-> [fl \in Flows |-> 0]],
   heap |-> <<>>,
   added |-> {},
   fxnflows |-> {},
   readded |-> 0,
   built |-> "none",
   require_connections |-> TRUE]

InitBuild ==
  /\ cfg = [dyn |-> [f \in Fxns |-> "none"],
            stat |-> [f \in Fxns |-> IF f = "B" THEN "idle" ELSE "none"],
            limit |-> 0]
  /\ s = [f \in Fxns |-> 0]
  /\ m = [f \in Fxns |-> {}]
  /\ flows = [fl \in Flows |-> 0]
  /\ flowstates = <<>>
  /\ pc = "idle"
  /\ call = NoCall
  /\ calls = 0
  /\ distqueue = <<>>
  /\ dynqueue = <<>>
  /\ activefxns = {}
  /\ nextfxns = {}
  /\ passqueue = <<>>
  /\ flows_to_check = {}
  /\ n = 0
  /\ err = NoErr
  /\ dyncalls = [f \in Fxns |-> 0]
  /\ dynfaults = [f \in Fxns |-> {}]
  /\ statcalls = 0
  /\ visited = <<>>
  /\ own = {}
  /\ seen = {}
  /\ lastpass = NoPass
  /\ pre = [s |-> [f \in Fxns |-> 0], m |-> [f \in Fxns |-> {}], flows |-> [fl \in Flows |-> 0]]
  /\ copyrun = NoCopy
  /\ blk = NoBlockCall
  /\ bld = EmptyModel
  /\ functionorder = <<>>
  /\ arch = NoInjection
  /\ cp = NoModelCopy
  /\ pl = NoProplist
  /\ fd = EmptyDomain
  /\ fs = EmptySample
  /\ sr = NoRate
  /\ fn = NoSampleTimes
  /\ prob = EmptyProblem
  /\ fp = NoFaultprop
  /\ rof = NoRun
  /\ pa = EmptyArchitecture
  /\ simp = NoSimpleProblem
  /\ app = NoApproach
  /\ scn = NoScenarios

\* add_flow(flowname): self.flows[flowname] = init_flow(flowname, ...), a new
\* object in its default state, whether or not the name is bound already
AddFlow(fl) ==
  /\ Len(bld.heap) < MaxObjects
  /\ bld' = [bld EXCEPT !.flows[fl] = Len(bld.heap) + 1,
                        !.heap = Append(bld.heap, 0)]
  /\ UNCHANGED aux
  /\ UNCHANGED <<copyrun, blk, cfg, ext, s, m, flows>>
  /\ UNCHANGED callvars

\* get_flows(flownames): the model's objects under these names
get_flows(fls) == [fl \in Flows |-> IF fl \in fls THEN bld.flows[fl] ELSE 0]

\* add_fxn(name, fclass, *flownames): self.fxns[name] = fclass(name,
\* flows=self.get_flows(flownames)); a name that is not a flow is a KeyError
\* then "for flowname in flownames: self._fxnflows.append((name, flowname))":
\* the edges of an earlier add_fxn of the name stay in the list
AddFxn(f, fls) ==
  /\ f \in bld.added => bld.readded < MaxReAdd
  /\ \A fl \in fls : bld.flows[fl] # 0
  /\ bld' = [bld EXCEPT !.fxns[f] = get_flows(fls),
                        !.readded = IF f \in bld.added THEN bld.readded + 1 ELSE bld.readded,
                        !.added = bld.added \cup {f},
                        !.fxnflows = bld.fxnflows \cup {<<f, fl>> : fl \in fls}]
  /\ UNCHANGED aux
  /\ UNCHANGED <<copyrun, blk, cfg, ext, s, m, flows>>
  /\ UNCHANGED callvars

\* a behaviour of block f writes the field of the flow it holds as fl
WriteFlow(f, fl) ==
  /\ bld.fxns[f][fl] # 0
  /\ bld' = [bld EXCEPT !.heap[bld.fxns[f][fl]] = 1 - bld.heap[bld.fxns[f][fl]]]
  /\ UNCHANGED aux
  /\ UNCHANGED <<copyrun, blk, cfg, ext, s, m, flows>>
  /\ UNCHANGED callvars

NextBuild ==
  \/ \E fl \in Flows : AddFlow(fl)
  \/ \E f \in Fxns, fls \in SUBSET Flows : AddFxn(f, fls)
  \/ \E f \in Fxns, fl \in Flows : WriteFlow(f, fl)

SpecBuild == InitBuild /\ [][NextBuild]_vars

\* ------------------------------------- Model.build, Model.construct_graph
\* construct_graph: "self.bipartite = nx.Graph(); add_nodes_from(self.fxns);
\* add_nodes_from(self.flows); add_edges_from(self._fxnflows)"
bipartite ==
  [nodes |-> bld.added \cup {fl \in Flows : bld.flows[fl] # 0},
   edges |-> bld.fxnflows]

\* mutant: only the functions are looked at
isolates_FxnsOnly(g) ==
  {v \in g.nodes \cap Fxns : ~\E e \in g.edges : e[1] = v \/ e[2] = v}

\* nx.isolates(graph): the nodes without an edge
isolates(g) == {v \in g.nodes : ~\E e \in g.edges : e[1] = v \/ e[2] = v}

\* construct_graph(require_connections): "if dangling_nodes and
\* require_connections: raise Exception(...)"
construct_graph(require_connections) ==
  IF isolates(bipartite) # {} /\ require_connections THEN "raised" ELSE "ok"

\* mdl.build(require_connections=require_connections) on a model that is not
\* a copy, without a function order: the graph is made and checked
Build(require_connections) ==
  /\ bld' = [bld EXCEPT !.built = construct_graph(require_connections),
                        !.require_connections = require_connections]
  /\ UNCHANGED aux
  /\ UNCHANGED <<copyrun, blk, cfg, ext, s, m, flows>>
  /\ UNCHANGED callvars

NextGraph ==
  \/ \E fl \in Flows : AddFlow(fl)
  \/ \E f \in Fxns, fls \in SUBSET Flows : AddFxn(f, fls)
  \/ \E require_connections \in BOOLEAN : Build(require_connections)

SpecGraph == InitBuild /\ [][NextGraph]_vars

\* ------------------------------------------------ Model.set_functionorder
\* the orders handed to set_functionorder / build(functionorder=...)
OrderChoices == { <<"C", "B", "A">>, <<"B", "A", "C">>, <<"A", "B", "C">> }

\* set_functionorder(q): functionorder becomes OrderedSet(q) when q holds
\* every function (a list that misses one raises and changes nothing);
\* build(functionorder=q) calls it and then lists staticfxns and dynamicfxns
\* from self.fxns.items() again, the order of the add_fxn calls
SetFunctionOrder(q) ==
  /\ pc = "idle"
  /\ Range(functionorder) \subseteq Range(q)
  /\ functionorder' = q
  /\ UNCHANGED <<fn, prob, fd, fs, sr, pl, cp, arch, copyrun, blk, bld, cfg, ext, s, m, flows>>
  /\ UNCHANGED callvars

NextOrder ==
  \/ Next
  \/ \E q \in OrderChoices : SetFunctionOrder(q)

SpecOrder == Init /\ [][NextOrder]_vars

\* ------------------- Architecture.inject_faults, Block.choose_rand_fault
\* calls of inject_faults and choose_rand_fault made on one architecture
MaxInjections == 2

\* Architecture.faultmodes as add_obj_modes fills it: obj.name+"_"+mode -> obj.name
\* for every mode of every role object; the name is written <<obj.name, mode>>
faultmodes == {<<f, md>> : f \in Fxns, md \in Faults}

\* the fault lists handed to inject_faults
InjectChoices ==
  { << <<"A", "short">> >>,
    << <<"B", "open">>, <<"B", "bogus">> >>,
    << <<"D", "short">> >> }

\* Mode.add_fault(*faults): the faults join the active set
add_fault(active, faults) == active \cup faults

\* mutant: the faults of a call replace the component's active set
inject_faults_Replace(ms, faults) ==
  [f \in Fxns |-> {md \in Faults : \E i \in 1..Len(faults) : faults[i] = <<f, md>>}]

\* inject_faults: "for fault in faults: if fault in self.faultmodes:
\* comp.m.add_fault(fault[len(comp.name)+1:])"; any other name is passed over
RECURSIVE inject_faults(_, _)
inject_faults(ms, faults) ==
  IF faults = <<>> THEN ms
  ELSE LET fault == Head(faults)
       IN inject_faults(IF fault \in faultmodes
                        THEN [ms EXCEPT ![fault[1]] = add_fault(ms[fault[1]], {fault[2]})]
                        ELSE ms,
                        Tail(faults))

\* arch.inject_faults(flexible_role, faults), the role objects being the blocks
InjectFaults(faults) ==
  /\ blk.pc \in {"idle", "done"}
  /\ arch.calls < MaxInjections
  /\ m' = inject_faults(m, faults)
  /\ arch' = [calls |-> arch.calls + 1, requested |-> Range(faults), raised |-> FALSE]
  /\ UNCHANGED <<fn, prob, fd, fs, sr, pl, cp, functionorder, copyrun, blk, bld, cfg, ext, s, flows>>
  /\ UNCHANGED callvars

\* choose_rand_fault: the fault sets one call may hand to m.add_fault: any
\* combination when the block runs stochastically, else the first of the
\* list or the default mode
RandFaults(faults, default, run_stochastic, combinations) ==
  IF run_stochastic
  THEN {c \in SUBSET Range(faults) : Cardinality(c) = combinations}
  ELSE IF default = "first" THEN {{faults[1]}}
  ELSE {{default}}

\* fxn.choose_rand_fault(faults, default, combinations)
ChooseRandFault(f, faults, default, run_stochastic, combinations) ==
  /\ blk.pc \in {"idle", "done"}
  /\ arch.calls < MaxInjections
  /\ \E c \in RandFaults(faults, default, run_stochastic, combinations) :
       m' = [m EXCEPT ![f] = add_fault(m[f], c)]
  /\ arch' = [calls |-> arch.calls + 1, requested |-> {}, raised |-> FALSE]
  /\ UNCHANGED <<fn, prob, fd, fs, sr, pl, cp, functionorder, copyrun, blk, bld, cfg, ext, s, flows>>
  /\ UNCHANGED callvars

\* arch.reset(): "Simulable.reset(self)", then "for obj in
\* self.get_flex_role_objs.values(): obj.reset()": get_flex_role_objs is the
\* bound method, not its result, and has no attribute values, so the call
\* ends in an AttributeError before any role object is reset
ArchitectureReset ==
  /\ blk.pc \in {"idle", "done"}
  /\ arch.calls < MaxInjections
  /\ arch' = [calls |-> arch.calls + 1, requested |-> {}, raised |-> TRUE]
  /\ UNCHANGED <<fn, prob, fd, fs, sr, pl, cp, functionorder, copyrun, blk, bld, cfg, ext, s, m, flows>>
  /\ UNCHANGED callvars

\* the chain A -> B -> C, with or without A's own behaviours
InitFaults == Init /\ cfg \in LightConfigs /\ cfg.stat["B"] = "copy" /\ cfg.stat["C"] = "read"

NextFaults ==
  \/ NextBlock
  \/ \E faults \in InjectChoices : InjectFaults(faults)
  \/ \E f \in Fxns, default \in {"first", "open"}, run_stochastic \in BOOLEAN,
        combinations \in 1..2 :
       ChooseRandFault(f, <<"short", "open">>, default, run_stochastic, combinations)
  \/ ArchitectureReset

SpecFaults == InitFaults /\ [][NextFaults]_vars

\* ------------------------------------------------------------- Model.copy
\* the position of a block in the model
Pos(f) == CHOOSE i \in 1..Len(fxnorder) : fxnorder[i] = f

\* the names bound in self.flows, in the order of the dict
BoundFlows == SelectSeq(<<"flow1", "flow2">>, LAMBDA fl : bld.flows[fl] # 0)

\* "copy.flows[flowname] = flow.copy()": a new object for every flow of the
\* original, after the objects that exist
CopiedFlows ==
  [fl \in Flows |->
     IF bld.flows[fl] = 0 THEN 0
     ELSE Len(bld.heap) + (CHOOSE i \in 1..Len(BoundFlows) : BoundFlows[i] = fl)]

\* mutant: the copy's blocks are handed the flows of the original
CopiedFxnFlows_OfSelf(newflows, f) == bld.fxns[f]

\* "flows = copy.get_flows(flownames); copy.fxns[fxnname] = fxn.copy(flows, ...)":
\* the copy's block holds the copy's objects under the names it was added with
CopiedFxnFlows(newflows, f) ==
  [fl \in Flows |-> IF bld.fxns[f][fl] # 0 THEN newflows[fl] ELSE 0]

\* copy = mdl.copy(): new flow objects in the state of the original's, new
\* blocks bound to them, each with containers of its own in the state of
\* the original's
CopyModel ==
  /\ ~cp.made
  /\ BoundFlows # <<>>
  /\ LET newflows == CopiedFlows
     IN /\ cp' = [made |-> TRUE,
                  flows |-> newflows,
                  fxns |-> [f \in Fxns |-> CopiedFxnFlows(newflows, f)],
                  state |-> [f \in Fxns |-> Len(fxnorder) + Pos(f)],
                  sheap |-> cp.sheap \o cp.sheap]
        /\ bld' = [bld EXCEPT !.heap =
                     bld.heap \o [i \in 1..Len(BoundFlows) |-> bld.heap[bld.flows[BoundFlows[i]]]]]
  /\ UNCHANGED <<fn, prob, fd, fs, sr, pl, functionorder, arch, copyrun, blk, cfg, ext, s, m, flows>>
  /\ UNCHANGED callvars

\* a step, fault or disturbance of the copy writes the flow its block f holds as fl
CopyWriteFlow(f, fl) ==
  /\ cp.made
  /\ cp.fxns[f][fl] # 0
  /\ bld' = [bld EXCEPT !.heap[cp.fxns[f][fl]] = 1 - bld.heap[cp.fxns[f][fl]]]
  /\ UNCHANGED <<fn, prob, fd, fs, sr, pl, functionorder, arch, cp, copyrun, blk, cfg, ext, s, m, flows>>
  /\ UNCHANGED callvars

\* a step, fault or disturbance writes the containers of block f of the copy
CopyWriteState(f) ==
  /\ cp.made
  /\ cp' = [cp EXCEPT !.sheap[cp.state[f]] = 1 - cp.sheap[cp.state[f]]]
  /\ UNCHANGED <<fn, prob, fd, fs, sr, pl, functionorder, arch, copyrun, blk, bld, cfg, ext, s, m, flows>>
  /\ UNCHANGED callvars

\* a step, fault or disturbance writes the containers of block f of the original
WriteState(f) ==
  /\ cp' = [cp EXCEPT !.sheap[Pos(f)] = 1 - cp.sheap[Pos(f)]]
  /\ UNCHANGED <<fn, prob, fd, fs, sr, pl, functionorder, arch, copyrun, blk, bld, cfg, ext, s, m, flows>>
  /\ UNCHANGED callvars

\* what can be done to the original once it is built: a flow is added again,
\* a block writes a flow it holds, a block's containers are written
OriginalStep ==
  \/ \E fl \in Flows : AddFlow(fl)
  \/ \E f \in Fxns, fl \in Flows : WriteFlow(f, fl)
  \/ \E f \in Fxns : WriteState(f)

CopyStep ==
  \/ \E f \in Fxns, fl \in Flows : CopyWriteFlow(f, fl)
  \/ \E f \in Fxns : CopyWriteState(f)

NextModelCopy ==
  \/ OriginalStep
  \/ CopyModel
  \/ CopyStep

\* the built chain A -> B -> C
InitModelCopy ==
  Init /\ cfg.dyn["A"] = "write" /\ cfg.stat = [f \in Fxns |-> IF f = "A" THEN "none" ELSE IF f = "B" THEN "copy" ELSE "read"]

SpecModelCopy == InitModelCopy /\ [][NextModelCopy]_vars

\* ------------------------------------------------------------ faultprop.py
\* the last time of mdl.times, which starts at 0
MaxTime == 1

\* the modes of a block, in the order of its faultmodes dict
ModeOrder == <<"short", "open">>

\* the state a model is constructed in
InitialWorld ==
  [s |-> [f \in Fxns |-> 0], m |-> [f \in Fxns |-> {}], flows |-> [fl \in Flows |-> 0]]

\* listinitfaults(mdl): one single-fault scenario for every time, function
\* and mode, in that nesting
listinitfaults ==
  [k \in 1..((MaxTime + 1) * Len(fxnorder) * Len(ModeOrder)) |->
     [time |-> (k - 1) \div (Len(fxnorder) * Len(ModeOrder)),
      function |-> fxnorder[(((k - 1) \div Len(ModeOrder)) % Len(fxnorder)) + 1],
      fault |-> ModeOrder[((k - 1) % Len(ModeOrder)) + 1]]]

\* scen['faults'] of a scenario; constructnomscen(mdl)['faults'] is NomFaults
ScenFaults(scen) == [f \in Fxns |-> IF f = scen.function THEN scen.fault ELSE "nom"]

NomFaults == [f \in Fxns |-> "nom"]

\* mdl.multgraph.adj[f].items() with list(flowview)[0]: the functions that
\* share a flow with f, each with the first flow it shares
Adj(f) ==
  LET shared(g) == {fl \in Flows : <<f, fl>> \in fxnflows /\ <<g, fl>> \in fxnflows}
      adjfxns == SelectSeq(fxnorder, LAMBDA g : g # f /\ shared(g) # {})
  IN [i \in 1..Len(adjfxns) |->
        <<adjfxns[i], IF "flow1" \in shared(adjfxns[i]) THEN "flow1" ELSE "flow2">>]

\* mdl.multgraph.degree(f): one edge for every flow shared with every function
degree(f) ==
  Cardinality({gf \in Fxns \X Flows :
                 gf[1] # f /\ <<f, gf[2]>> \in fxnflows /\ <<gf[1], gf[2]>> \in fxnflows})

\* fxn.updatefxn(faults=..., time=...): the faults join the active set and
\* the behaviours of the block run
updatefxn(f, faults, time, w) ==
  CallBlock(f, "static", {}, time, CallBlock(f, "dynamic", faults, time, w))

\* propagate, Step 3, the flows of one function after it was updated: a flow
\* that differs from flowhist puts the function and its neighbour on the
\* active set, and the function leaves it once enough flows were found equal
RECURSIVE CheckAdj(_, _, _, _)
CheckAdj(f, q, st, test) ==
  IF q = <<>> THEN st
  ELSE LET adjfxn == Head(q)[1]
           flowname == Head(q)[2]
           changed == st.w.flows[flowname] # st.flowhist[flowname]
           added == IF changed THEN st.active \cup {f, adjfxn} ELSE st.active
           test1 == IF changed THEN test ELSE test + 1
       IN CheckAdj(f, Tail(q),
                   [st EXCEPT !.flowhist[flowname] = st.w.flows[flowname],
                              !.active = IF test1 >= degree(f) THEN added \ {f} ELSE added],
                   test1)

\* propagate, Step 3: "for fxnname in list(activefxns).copy()"
RECURSIVE PassOver(_, _, _)
PassOver(q, st, time) ==
  IF q = <<>> THEN st
  ELSE PassOver(Tail(q),
                CheckAdj(Head(q), Adj(Head(q)),
                         [st EXCEPT !.w = updatefxn(Head(q), {}, time, st.w)], 0),
                time)

\* propagate, Step 3: "while activefxns", left with a print once n > 1000;
\* order is the order in which this interpreter lists a set of names
RECURSIVE Settle(_, _, _, _)
Settle(st, k, time, order) ==
  IF st.active = {} THEN st.w
  ELSE LET st1 == PassOver(Ordered(order, st.active), st, time)
       IN IF k + 1 > MaxPasses THEN st1.w ELSE Settle(st1, k + 1, time, order)

\* propagate, Step 2: the faults of the scenario are injected, in the order of the dict
RECURSIVE Inject(_, _, _, _)
Inject(q, initfaults, time, w) ==
  IF q = <<>> THEN w
  ELSE Inject(Tail(q), initfaults, time,
              IF initfaults[Head(q)] # "nom"
              THEN updatefxn(Head(q), {initfaults[Head(q)]}, time, w)
              ELSE w)

\* faultprop.propagate(mdl, initfaults, time)
propagate(w, initfaults, time, order) ==
  Settle([w |-> Inject(fxnorder, initfaults, time, w), flowhist |-> w.flows, active |-> Fxns],
         0, time, order)

\* runonefault, its loop over the times: the nominal model and the model of
\* the scenario are stepped side by side
RECURSIVE RunTimes(_, _, _, _, _)
RunTimes(rtime, nommdl, mdl, scen, order) ==
  IF rtime > MaxTime THEN [nommdl |-> nommdl, mdl |-> mdl]
  ELSE RunTimes(rtime + 1,
                propagate(nommdl, NomFaults, rtime, order),
                propagate(mdl, IF rtime = scen.time THEN ScenFaults(scen) ELSE NomFaults,
                          rtime, order),
                scen, order)

\* runonefault(mdl, scen): the model at the end, and endresults: the flows
\* that differ from the nominal model's and the faults present
runonefault(w, scen, order) ==
  LET run == RunTimes(0, InitialWorld, w, scen, order)
  IN [mdl |-> run.mdl,
      endresults |->
        [flows |-> {<<fl, run.mdl.flows[fl]>> : fl \in {x \in Flows : run.mdl.flows[x] # run.nommdl.flows[x]}},
         faults |-> {<<f, run.mdl.m[f]>> : f \in {x \in Fxns : run.mdl.m[x] # {}}}]]

\* mutant: only the flows are reset
reset_FlowsOnly(w) == [w EXCEPT !.flows = InitialWorld.flows]

\* Model.reset(): every flow and every function is reset
reset(w) == [w EXCEPT !.flows = InitialWorld.flows, !.s = InitialWorld.s, !.m = InitialWorld.m]

\* proplist(mdl, reuse) is called on a model in its initial state
Proplist(reuse, order) ==
  /\ pl.stage = "idle"
  /\ pc = "idle"
  /\ calls = 0
  /\ pl' = [stage |-> "loop", reuse |-> reuse, order |-> order, i |-> 1,
            resultsdict |-> <<>>, made |-> 0]
  /\ UNCHANGED <<fn, prob, fd, fs, sr, functionorder, arch, cp, copyrun, blk, bld, cfg, ext, s, m, flows>>
  /\ UNCHANGED callvars

\* the loop of proplist: endresults, ... = runonefault(mdl, scen)
RunOneFault ==
  /\ pl.stage = "loop"
  /\ pl.i <= Len(listinitfaults)
  /\ LET run == runonefault(World, listinitfaults[pl.i], pl.order)
     IN /\ SetWorld(run.mdl)
        /\ pl' = [pl EXCEPT !.stage = "ran", !.resultsdict = Append(pl.resultsdict, run.endresults)]
  /\ UNCHANGED <<fn, prob, fd, fs, sr, functionorder, arch, cp, copyrun, blk, bld, cfg, ext>>
  /\ UNCHANGED callvars

\* the loop of proplist after a run: mdl.reset() if reuse, else mdl = mdl.__class__()
ResetOrRenew ==
  /\ pl.stage = "ran"
  /\ SetWorld(IF pl.reuse THEN reset(World) ELSE InitialWorld)
  /\ pl' = [pl EXCEPT !.stage = "loop", !.i = pl.i + 1,
                      !.made = IF pl.reuse THEN pl.made ELSE pl.made + 1]
  /\ UNCHANGED <<fn, prob, fd, fs, sr, functionorder, arch, cp, copyrun, blk, bld, cfg, ext>>
  /\ UNCHANGED callvars

\* the loop is over: the table is made and the model is reset
ProplistDone ==
  /\ pl.stage = "loop"
  /\ pl.i > Len(listinitfaults)
  /\ SetWorld(reset(World))
  /\ pl' = [pl EXCEPT !.stage = "done"]
  /\ UNCHANGED <<fn, prob, fd, fs, sr, functionorder, arch, cp, copyrun, blk, bld, cfg, ext>>
  /\ UNCHANGED callvars

NextProplist ==
  \/ \E reuse \in BOOLEAN, order \in Perms(Fxns) : Proplist(reuse, order)
  \/ RunOneFault
  \/ ResetOrRenew
  \/ ProplistDone

\* models in which no two blocks write one flow, so that propagation settles
InitProplist == Init /\ cfg \in LightConfigs /\ cfg.stat["B"] # "pulse"

SpecProplist == InitProplist /\ [][NextProplist]_vars

\* ------------------------------------- faultprop.propagate, pass by pass
\* the variables of the model classes and of its construction
modelvars == <<cfg, s, m, flows, copyrun, blk, bld>>

\* the graphs propagate is run on: the chain A - B - C; A and B sharing both
\* flows, with C on one of them and with C on none; A and B on one flow and
\* nothing else; all three on one flow
Graphs ==
  { fxnflows,
    {<<"A", "flow1">>, <<"B", "flow1">>, <<"A", "flow2">>, <<"B", "flow2">>, <<"C", "flow2">>},
    {<<"A", "flow1">>, <<"B", "flow1">>, <<"A", "flow2">>, <<"B", "flow2">>},
    {<<"A", "flow1">>, <<"B", "flow1">>},
    {<<"A", "flow1">>, <<"B", "flow1">>, <<"C", "flow1">>} }

\* what updatefxn of a function does: nothing, flip the status of its flows,
\* or degrade its flows once it has a fault
Behaviours ==
  { [f \in Fxns |-> IF f = "A" THEN a ELSE IF f = "B" THEN b ELSE "none"] :
      a \in {"none", "toggle", "onfault"}, b \in {"none", "toggle"} }

\* initfaults: the nominal scenario and a single fault in A
InitFaultChoices == { NomFaults, [f \in Fxns |-> IF f = "A" THEN "short" ELSE "nom"] }

\* the orders in which list(activefxns) lists the names
ListOrders == { fxnorder, <<"C", "B", "A">> }

\* mdl.multgraph.adj[f].items() with list(flowview)[0] on the graph g
adjOf(g, f) ==
  LET shared(h) == {fl \in Flows : <<f, fl>> \in g /\ <<h, fl>> \in g}
      adjfxns == SelectSeq(fxnorder, LAMBDA h : h # f /\ shared(h) # {})
  IN [i \in 1..Len(adjfxns) |->
        <<adjfxns[i], IF "flow1" \in shared(adjfxns[i]) THEN "flow1" ELSE "flow2">>]

\* mdl.multgraph.degree(f) on the graph g: the multigraph has one edge for
\* every flow f shares with every other function
degreeOf(g, f) ==
  Cardinality({hf \in Fxns \X Flows : hf[1] # f /\ <<f, hf[2]>> \in g /\ hf \in g})

\* fxn.updatefxn(faults=..., time=...) of f: the faults join the function's,
\* its behaviour runs on the flows it holds
updatefxnOf(st, f, faults) ==
  LET has == st.faults[f] \cup faults
      mine == {fl \in Flows : <<f, fl>> \in st.g}
      status1 == [fl \in Flows |->
                    IF fl \notin mine THEN st.status[fl]
                    ELSE IF st.beh[f] = "toggle" THEN 1 - st.status[fl]
                    ELSE IF st.beh[f] = "onfault" /\ has # {} THEN 1
                    ELSE st.status[fl]]
  IN [st EXCEPT !.faults[f] = has, !.status = status1,
                !.changed = st.changed \/ status1 # st.status]

\* propagate, Step 3, "for adjfxn, flowview in mdl.multgraph.adj[fxnname].items()":
\* a flow that differs from flowhist puts the function and its neighbour on
\* the active set; inside the loop, the function is discarded once test
\* has reached tests[fxnname]
RECURSIVE CheckFlows(_, _, _, _)
CheckFlows(f, q, st, test) ==
  IF q = <<>> THEN st
  ELSE LET adjfxn == Head(q)[1]
           flowname == Head(q)[2]
           differs == st.status[flowname] # st.flowhist[flowname]
           added == IF differs THEN st.active \cup {f, adjfxn} ELSE st.active
           test1 == IF differs THEN test ELSE test + 1
       IN CheckFlows(f, Tail(q),
             [st EXCEPT !.flowhist[flowname] = st.status[flowname],
                        !.active = IF test1 >= st.tests[f] THEN added \ {f} ELSE added],
             test1)

\* propagate, Step 3, "for fxnname in list(activefxns).copy()"
RECURSIVE ForActive(_, _)
ForActive(q, st) ==
  IF q = <<>> THEN st
  ELSE ForActive(Tail(q),
                 CheckFlows(Head(q), adjOf(st.g, Head(q)), updatefxnOf(st, Head(q), {}), 0))

\* propagate, Step 2: "for fxnname in initfaults", in the order of the dict
RECURSIVE InjectInit(_, _, _)
InjectInit(q, initfaults, st) ==
  IF q = <<>> THEN st
  ELSE InjectInit(Tail(q), initfaults,
                  IF initfaults[Head(q)] # "nom"
                  THEN updatefxnOf(st, Head(q), {initfaults[Head(q)]})
                  ELSE st)

\* mutant: the loop is left one pass later
TooLong_OneMore(k) == k > MaxPasses + 1

\* "if n>1000: #break if this is going for too long"
TooLong(k) == k > MaxPasses

\* propagate(mdl, initfaults, time), Steps 1 and 2, up to "while activefxns"
FaultpropCall(g, beh, initfaults, order) ==
  /\ fp.stage = "idle"
  /\ fp' = InjectInit(fxnorder, initfaults,
             [stage |-> "loop", g |-> g, beh |-> beh, order |-> order,
              status |-> [fl \in Flows |-> 0],
              flowhist |-> [fl \in Flows |-> 0],
              tests |-> [f \in Fxns |-> degreeOf(g, f)],
              faults |-> [f \in Fxns |-> {}],
              active |-> Fxns, n |-> 0, printed |-> FALSE, changed |-> FALSE])
  /\ UNCHANGED <<modelvars, callvars, aux, rof, pa, simp, app, scn>>

\* one pass of "while activefxns": the for loop, n+=1, the break, and the
\* test of the while
Pass ==
  /\ fp.stage = "loop"
  /\ LET st == ForActive(Ordered(fp.order, fp.active), fp)
         n1 == fp.n + 1
     IN fp' = [st EXCEPT !.n = n1,
                         !.printed = TooLong(n1),
                         !.stage = IF TooLong(n1) \/ st.active = {} THEN "returned" ELSE "loop"]
  /\ UNCHANGED <<modelvars, callvars, aux, rof, pa, simp, app, scn>>

NextFaultprop ==
  \/ \E g \in Graphs, beh \in Behaviours, initfaults \in InitFaultChoices, order \in ListOrders :
       FaultpropCall(g, beh, initfaults, order)
  \/ Pass

InitFaultprop == InitModelCopy

SpecFaultprop == InitFaultprop /\ [][NextFaultprop]_vars

\* ----------------------------------------- faultprop.runonefault, by step
\* the states of the model runonefault is handed: as constructed, and with
\* a flow left changed by earlier use
StartWorlds == { InitialWorld, [InitialWorld EXCEPT !.flows["flow1"] = 1] }

\* mutant: the faults of the scenario are given at every step from its time on
StepFaults_FromTime(scen, rtime) == IF rtime >= scen.time THEN ScenFaults(scen) ELSE NomFaults

\* runonefault, "if rtime==time: propagate(mdl, scen['faults'], rtime)
\* else: propagate(mdl,nomscen['faults'],rtime)"
StepFaults(scen, rtime) == IF rtime = scen.time THEN ScenFaults(scen) ELSE NomFaults

\* runonefault(mdl, scen) up to its loop: nommdl = mdl.__class__(),
\* time = scen['properties']['time']
RunonefaultCall(w, scen, order) ==
  /\ rof.stage = "idle"
  /\ rof' = [stage |-> "loop", scen |-> scen, order |-> order, start |-> w,
             rtime |-> 0, nommdl |-> InitialWorld, mdl |-> w, hist |-> <<>>]
  /\ UNCHANGED <<modelvars, callvars, aux, fp, pa, simp, app, scn>>

\* one turn of "for rtime in range(timerange[0], timerange[-1]+1)"
RunStep ==
  /\ rof.stage = "loop"
  /\ LET faults == StepFaults(rof.scen, rof.rtime)
         nommdl == propagate(rof.nommdl, NomFaults, rof.rtime, rof.order)
         mdl == propagate(rof.mdl, faults, rof.rtime, rof.order)
     IN rof' = [rof EXCEPT !.nommdl = nommdl, !.mdl = mdl,
                           !.hist = Append(rof.hist, [given |-> faults, nominal |-> nommdl.flows,
                                                      faulty |-> mdl.flows]),
                           !.rtime = rof.rtime + 1,
                           !.stage = IF rof.rtime + 1 > MaxTime THEN "returned" ELSE "loop"]
  /\ UNCHANGED <<modelvars, callvars, aux, fp, pa, simp, app, scn>>

NextRunonefault ==
  \/ \E w \in StartWorlds, k \in 1..Len(listinitfaults), order \in Perms(Fxns) :
       RunonefaultCall(w, listinitfaults[k], order)
  \/ RunStep

SpecRunonefault == InitProplist /\ [][NextRunonefault]_vars

\* ------------------------------------------------- sample.py: FaultDomain
\* the characters of the names handed to same_mode
Chars(name) ==
  CASE name = "short" -> <<"s", "h", "o", "r", "t">>
    [] name = "open" -> <<"o", "p", "e", "n">>
    [] name = "sh" -> <<"s", "h">>
    [] name = "o" -> <<"o">>
    [] OTHER -> <<"b", "o", "g", "u", "s">>

\* Python's "a in b" on strings
IsIn(a, b) == \E i \in 0..(Len(b) - Len(a)) : SubSeq(b, i + 1, i + Len(a)) = a

\* same_mode(modename1, modename2, exact)
same_mode(modename1, modename2, exact) ==
  IF exact THEN modename1 = modename2
  ELSE IsIn(Chars(modename1), Chars(modename2))

\* obj.__class__.__name__ of the blocks of the model
classname == [f \in Fxns |-> IF f = "C" THEN "Sink" ELSE "Move"]

\* fxns_of_class(ftype): the functions of the class
fxns_of_class(ftype) == {f \in Fxns : classname[f] = ftype}

\* [(fxnname, mode) for fxnname, fxn in self.fxns.items() for mode in
\* fxn.m.faultmodes]: every mode of every function, in dict order
AllFaults ==
  [i \in 1..(Len(fxnorder) * Len(ModeOrder)) |->
     <<fxnorder[((i - 1) \div Len(ModeOrder)) + 1],
       ModeOrder[((i - 1) % Len(ModeOrder)) + 1]>>]

\* the block fxnname exists and defines faultmode
Defined(fault) == fault \in faultmodes

\* the key is in the dict
HasKey(d, key) == \E i \in 1..Len(d) : d[i] = key

\* mutant: the key is stored without looking the mode up
FaultDomain_add_fault_Unchecked(d, fxnname, faultmode) ==
  [faults |-> IF HasKey(d, <<fxnname, faultmode>>) THEN d
              ELSE Append(d, <<fxnname, faultmode>>),
   raised |-> ~Defined(<<fxnname, faultmode>>)]

\* FaultDomain.add_fault: "fault = self.fxns[fxnname].m.faultmodes[faultmode]"
\* raises for an unknown block or mode; else the key is set (a dict keeps the
\* place of a key it already holds)
FaultDomain_add_fault(d, fxnname, faultmode) ==
  IF ~Defined(<<fxnname, faultmode>>) THEN [faults |-> d, raised |-> TRUE]
  ELSE [faults |-> IF HasKey(d, <<fxnname, faultmode>>) THEN d
                   ELSE Append(d, <<fxnname, faultmode>>),
        raised |-> FALSE]

\* mutant: the faults of a call replace the dict
add_faults_Replace(d, faults) ==
  [faults |-> SelectSeq(faults, Defined), raised |-> \E i \in 1..Len(faults) : ~Defined(faults[i])]

\* FaultDomain.add_faults: "for fault in faults: self.add_fault(fault[0], fault[1])"
RECURSIVE add_faults(_, _)
add_faults(d, faults) ==
  IF faults = <<>> THEN [faults |-> d, raised |-> FALSE]
  ELSE LET r == FaultDomain_add_fault(d, Head(faults)[1], Head(faults)[2])
       IN IF r.raised THEN r ELSE add_faults(r.faults, Tail(faults))

\* FaultDomain.add_all
add_all(d) == add_faults(d, AllFaults)

\* FaultDomain.add_all_modes(*modenames, exact)
RECURSIVE add_all_modes(_, _, _)
add_all_modes(d, modenames, exact) ==
  IF modenames = <<>> THEN [faults |-> d, raised |-> FALSE]
  ELSE LET faults == SelectSeq(AllFaults,
                               LAMBDA k : same_mode(Head(modenames), k[2], exact))
           r == add_faults(d, faults)
       IN IF r.raised THEN r ELSE add_all_modes(r.faults, Tail(modenames), exact)

\* FaultDomain.add_all_fxnclass_modes(*fxnclasses)
RECURSIVE add_all_fxnclass_modes(_, _)
add_all_fxnclass_modes(d, fxnclasses) ==
  IF fxnclasses = <<>> THEN [faults |-> d, raised |-> FALSE]
  ELSE LET faults == SelectSeq(AllFaults,
                               LAMBDA k : k[1] \in fxns_of_class(Head(fxnclasses)))
           r == add_faults(d, faults)
       IN IF r.raised THEN r ELSE add_all_fxnclass_modes(r.faults, Tail(fxnclasses))

\* FaultDomain.add_all_fxn_modes(*fxnnames): self.fxns[fxnname] raises for an
\* unknown function
RECURSIVE add_all_fxn_modes(_, _)
add_all_fxn_modes(d, fxnnames) ==
  IF fxnnames = <<>> THEN [faults |-> d, raised |-> FALSE]
  ELSE IF Head(fxnnames) \notin Fxns THEN [faults |-> d, raised |-> TRUE]
  ELSE LET faults == SelectSeq(AllFaults, LAMBDA k : k[1] = Head(fxnnames))
           r == add_faults(d, faults)
       IN IF r.raised THEN r ELSE add_all_fxn_modes(r.faults, Tail(fxnnames))

\* --------------------------------------- block/base.py: get_scen_rate
\* the simulation parameters of the model: times, dt
sp == [times |-> [i \in 1..(MaxTime + 1) |-> i - 1], dt |-> 1]

\* the rate of each fault mode the blocks define (Fault.rate)
fault_rate ==
  [k \in faultmodes |-> (IF k[2] = "short" THEN 1 ELSE 2) + (IF k[1] = "C" THEN 2 ELSE 0)]

\* the weights handed to the sampling calls, as <<numerator, denominator>>
Weights == {<<1, 1>>, <<1, 2>>}

\* Fault.calc_rate without a phase map: the base rate over the simulated
\* time, weighted
calc_rate(rate, time, sim_time, weight) == <<rate * sim_time * weight[1], weight[2]>>

\* mutant: a mode the block does not define has rate 0
get_scen_rate_Default(fxnname, faultmode, time, weight) ==
  IF Defined(<<fxnname, faultmode>>)
  THEN [raised |-> FALSE,
        rate |-> calc_rate(fault_rate[<<fxnname, faultmode>>], time,
                           sp.times[Len(sp.times)] - sp.times[1] + sp.dt, weight)]
  ELSE [raised |-> FALSE, rate |-> <<0, 1>>]

\* Simulable.get_scen_rate(fxnname, faultmode, time, phasemap={}, weight)
get_scen_rate(fxnname, faultmode, time, weight) ==
  IF fxnname \notin Fxns THEN [raised |-> TRUE, rate |-> <<0, 1>>]
  ELSE IF ~Defined(<<fxnname, faultmode>>) THEN [raised |-> TRUE, rate |-> <<0, 1>>]
  ELSE LET sim_time == sp.times[Len(sp.times)] - sp.times[1] + sp.dt
       IN [raised |-> FALSE,
           rate |-> calc_rate(fault_rate[<<fxnname, faultmode>>], time, sim_time, weight)]

\* the faults the sampling calls are made with
ScenFaultChoices == {<<"A", "short">>, <<"C", "open">>, <<"B", "bogus">>, <<"D", "short">>}

\* mdl.get_scen_rate(fxnname, faultmode, time, weight=weight)
GetScenRate(fault, time, weight) ==
  /\ LET r == get_scen_rate(fault[1], fault[2], time, weight)
     IN sr' = [called |-> TRUE, fault |-> fault, rate |-> r.rate, raised |-> r.raised]
  /\ UNCHANGED <<fn, prob, fd, fs, pl, functionorder, arch, cp, copyrun, blk, bld, cfg, ext, s, m, flows>>
  /\ UNCHANGED callvars

\* the selection rules applied to a domain: the method and its arguments
DomainRules ==
  << [kind |-> "add_fault", args |-> <<"A", "short">>],
     [kind |-> "add_fault", args |-> <<"B", "bogus">>],
     [kind |-> "add_fault", args |-> <<"D", "short">>],
     [kind |-> "add_faults", args |-> << <<"C", "open">>, <<"C", "short">> >>],
     [kind |-> "add_faults", args |-> << <<"A", "open">>, <<"A", "bogus">>, <<"B", "open">> >>],
     [kind |-> "add_all", args |-> <<>>],
     [kind |-> "add_all_modes", args |-> <<"open">>, exact |-> TRUE],
     [kind |-> "add_all_modes", args |-> <<"o">>, exact |-> TRUE],
     [kind |-> "add_all_modes", args |-> <<"sh", "bogus">>, exact |-> FALSE],
     [kind |-> "add_all_modes", args |-> <<"o">>, exact |-> FALSE],
     [kind |-> "add_all_fxnclass_modes", args |-> <<"Sink", "Nope">>],
     [kind |-> "add_all_fxnclass_modes", args |-> <<"Move">>],
     [kind |-> "add_all_fxn_modes", args |-> <<"C">>],
     [kind |-> "add_all_fxn_modes", args |-> <<"B", "D", "A">>] >>

\* the call of the rule on the dict d
ApplyRule(d, rule) ==
  CASE rule.kind = "add_fault" -> FaultDomain_add_fault(d, rule.args[1], rule.args[2])
    [] rule.kind = "add_faults" -> add_faults(d, rule.args)
    [] rule.kind = "add_all" -> add_all(d)
    [] rule.kind = "add_all_modes" -> add_all_modes(d, rule.args, rule.exact)
    [] rule.kind = "add_all_fxnclass_modes" -> add_all_fxnclass_modes(d, rule.args)
    [] OTHER -> add_all_fxn_modes(d, rule.args)

\* the elements of the list q that come before the first one that is not known
Before(q, known) == {q[i] : i \in {j \in 1..Len(q) : \A k \in 1..j : q[k] \in known}}

\* the faults a rule selects, as its documentation describes them: those of
\* the listed faults, modes, classes or functions that come before the first
\* one that does not exist
Selection(rule) ==
  CASE rule.kind = "add_fault" -> {rule.args} \cap faultmodes
    [] rule.kind = "add_faults" -> Before(rule.args, faultmodes)
    [] rule.kind = "add_all" -> faultmodes
    [] rule.kind = "add_all_modes" ->
         {k \in faultmodes : \E i \in 1..Len(rule.args) :
            same_mode(rule.args[i], k[2], rule.exact)}
    [] rule.kind = "add_all_fxnclass_modes" ->
         {k \in faultmodes : \E i \in 1..Len(rule.args) : classname[k[1]] = rule.args[i]}
    [] OTHER ->
         {k \in faultmodes : k[1] \in Before(rule.args, Fxns)}

\* one rule is applied to the domain
DomainRule(i) ==
  /\ LET r == ApplyRule(fd.faults, DomainRules[i])
     IN fd' = [faults |-> r.faults, last |-> i, repeated |-> (fd.last = i),
               raised |-> r.raised, sel |-> fd.sel \cup Selection(DomainRules[i])]
  /\ UNCHANGED <<fn, prob, fs, sr, pl, functionorder, arch, cp, copyrun, blk, bld, cfg, ext, s, m, flows>>
  /\ UNCHANGED callvars

NextDomain ==
  \/ \E i \in 1..Len(DomainRules) : DomainRule(i)
  \/ \E fault \in ScenFaultChoices, time \in 0..MaxTime, weight \in Weights :
       GetScenRate(fault, time, weight)

\* the domain of the built chain A -> B -> C
InitDomain == InitModelCopy

SpecDomain == InitDomain /\ [][NextDomain]_vars

\* ------------------------------------------------- sample.py: FaultSample
\* calls made on one FaultSample
MaxSamples == 2

\* str(time) for the times of the model
Digits(time) == CASE time = 0 -> "0" [] time = 1 -> "1" [] time = 2 -> "2" [] OTHER -> "3"

\* t_key(time): "t" and the digits of the time
t_key(time) == <<"t", Digits(time)>>

\* '_'.join(parts), the strings being written as the list of their pieces
RECURSIVE Join(_)
Join(parts) ==
  IF parts = <<>> THEN <<>>
  ELSE IF Len(parts) = 1 THEN parts[1]
  ELSE parts[1] \o <<"_">> \o Join(Tail(parts))

\* mutant: the name carries the number of scenarios the sample holds
create_scenname_Numbered(faulttup, time) ==
  Join([i \in 1..Len(faulttup) |-> <<faulttup[i][1], "_", faulttup[i][2], "_">>])
    \o t_key(time) \o <<Digits(Len(fs.scenarios))>>

\* create_scenname(faulttup, time):
\* '_'.join([fm[0]+'_'+fm[1]+'_' for fm in faulttup])+t_key(time)
create_scenname(faulttup, time) ==
  Join([i \in 1..Len(faulttup) |-> <<faulttup[i][1], "_", faulttup[i][2], "_">>])
    \o t_key(time)

\* a sample while a call works on it
Sample(scenarios, times, raised) ==
  [scenarios |-> scenarios, times |-> times, raised |-> raised]

\* the phase maps a sample is made with: the phases in the order of the dict,
\* each with its first and last time
PhaseMaps ==
  { << [name |-> "on", start |-> 0, end |-> 1], [name |-> "off", start |-> 2, end |-> 3] >>,
    << [name |-> "all", start |-> 0, end |-> 3] >> }

\* PhaseMap.find_base_phase(time): the phase that holds the time
find_base_phase(phasemap, time) ==
  phasemap[CHOOSE i \in 1..Len(phasemap) :
             phasemap[i].start <= time /\ time <= phasemap[i].end].name

\* PhaseMap.calc_samples_in_phases(*times): how many of the times fall in the
\* phase
calc_samples_in_phases(phasemap, times, phase) ==
  Cardinality({i \in 1..Len(times) : find_base_phase(phasemap, times[i]) = phase})

\* FaultSample.add_single_fault_scenario(faulttup, time, weight):
\* self._times.add(time), then the rate, then the scenario (its weight is
\* kept with it for reference)
add_single_fault_scenario(smp, faulttup, time, weight) ==
  LET times == smp.times \cup {time}
      r == get_scen_rate(faulttup[1], faulttup[2], time, weight)
  IN IF r.raised THEN Sample(smp.scenarios, times, TRUE)
     ELSE Sample(Append(smp.scenarios,
                        [function |-> faulttup[1], fault |-> faulttup[2], rate |-> r.rate,
                         name |-> create_scenname(<<faulttup>>, time), time |-> time,
                         times |-> <<time>>, joint_faults |-> 1, weight |-> weight]),
                 times, FALSE)

\* np.prod and np.max of the rates, as fractions
RECURSIVE Prod(_)
Prod(rates) ==
  IF rates = <<>> THEN <<1, 1>>
  ELSE LET p == Prod(Tail(rates)) IN <<rates[1][1] * p[1], rates[1][2] * p[2]>>

RateMax(rates) ==
  rates[CHOOSE i \in 1..Len(rates) :
          \A j \in 1..Len(rates) : rates[j][1] * rates[i][2] <= rates[i][1] * rates[j][2]]

\* add_joint_fault_scenario: "for i, faulttup in enumerate(faulttups):
\* rates[faulttup] = get_scen_rate(...)"; the result is the list of the
\* rates, or raised
RECURSIVE JointRates(_, _, _)
JointRates(faulttups, time, weight) ==
  IF faulttups = <<>> THEN [raised |-> FALSE, rates |-> <<>>]
  ELSE LET r == get_scen_rate(faulttups[1][1], faulttups[1][2], time, weight)
       IN IF r.raised THEN [raised |-> TRUE, rates |-> <<>>]
          ELSE LET rest == JointRates(Tail(faulttups), time, weight)
               IN [raised |-> rest.raised, rates |-> <<r.rate>> \o rest.rates]

\* the values of the dict rates: one rate for every distinct fault, in the
\* order the faults were first listed
RateValues(faulttups, rates) ==
  LET keys == {i \in 1..Len(faulttups) : \A j \in 1..(i - 1) : faulttups[j] # faulttups[i]}
  IN [k \in 1..Cardinality(keys) |->
        rates[CHOOSE i \in keys : Cardinality({j \in keys : j <= i}) = k]]

\* mutant: the rates are multiplied whatever the base rate asked for
joint_rate_AlwaysInd(faulttups, rates, baserate, p_cond) ==
  [raised |-> FALSE,
   rate |-> <<Prod(RateValues(faulttups, rates))[1] * p_cond[1],
              Prod(RateValues(faulttups, rates))[2] * p_cond[2]>>]

\* add_joint_fault_scenario: "if baserate == 'ind': rate = np.prod(...) elif
\* baserate == 'max': rate = np.max(...) else: rate = rates[baserate]", then
\* "rate *= p_cond"; a base rate fault that is not among the faults raises
joint_rate(faulttups, rates, baserate, p_cond) ==
  LET vals == RateValues(faulttups, rates)
  IN IF baserate # <<"ind">> /\ baserate # <<"max">>
        /\ ~\E i \in 1..Len(faulttups) : faulttups[i] = baserate
     THEN [raised |-> TRUE, rate |-> <<0, 1>>]
     ELSE LET rate == IF baserate = <<"ind">> THEN Prod(vals)
                      ELSE IF baserate = <<"max">> THEN RateMax(vals)
                      ELSE rates[CHOOSE i \in 1..Len(faulttups) : faulttups[i] = baserate]
          IN [raised |-> FALSE, rate |-> <<rate[1] * p_cond[1], rate[2] * p_cond[2]>>]

\* FaultSample.add_joint_fault_scenario(faulttups, time, weight, baserate,
\* p_cond); baserate is <<"ind">>, <<"max">> or a fault
add_joint_fault_scenario(smp, faulttups, time, weight, baserate, p_cond) ==
  LET times == smp.times \cup {time}
      r == JointRates(faulttups, time, weight)
      jr == joint_rate(faulttups, r.rates, baserate, p_cond)
  IN IF r.raised \/ jr.raised THEN Sample(smp.scenarios, times, TRUE)
     ELSE Sample(Append(smp.scenarios,
                        [functions |-> {faulttups[i][1] : i \in 1..Len(faulttups)},
                         modes |-> {faulttups[i][2] : i \in 1..Len(faulttups)},
                         rate |-> jr.rate,
                         name |-> create_scenname(faulttups, time), time |-> time,
                         times |-> <<time>>, joint_faults |-> Len(faulttups),
                         weight |-> weight]),
                 times, FALSE)

\* itertools.combinations(self.faultdomain.faults, n_joint) for n_joint 1 and 2
RECURSIVE PairsFrom(_, _)
PairsFrom(d, i) ==
  IF i >= Len(d) THEN <<>>
  ELSE [j \in 1..(Len(d) - i) |-> <<d[i], d[i + j]>>] \o PairsFrom(d, i + 1)

combinations(d, n_joint) ==
  IF n_joint = 1 THEN [i \in 1..Len(d) |-> <<d[i]>>] ELSE PairsFrom(d, 1)

\* mutant: the phases are not looked at
sample_weight_NoPhase(times, weights, i) ==
  IF weights # <<>> THEN weights[i] ELSE <<1, 1>>

\* add_fault_times: "if weights: weight = weights[i]; elif self.phasemap:
\* weight = 1/phase_samples[phase]; else: weight = 1.0"
sample_weight(times, weights, i) ==
  IF weights # <<>> THEN weights[i]
  ELSE IF fs.phasemap # <<>>
  THEN <<1, calc_samples_in_phases(fs.phasemap, times,
                                   find_base_phase(fs.phasemap, times[i]))>>
  ELSE <<1, 1>>

\* add_fault_times: the inner loop "for i, time in enumerate(times)" from i on
RECURSIVE TimesLoop(_, _, _, _, _, _)
TimesLoop(smp, faulttups, times, weights, n_joint, i) ==
  IF i > Len(times) THEN smp
  ELSE IF weights # <<>> /\ i > Len(weights) THEN Sample(smp.scenarios, smp.times, TRUE)
  ELSE LET weight == sample_weight(times, weights, i)
           r == IF n_joint = 1
                THEN add_single_fault_scenario(smp, faulttups[1], times[i], weight)
                ELSE add_joint_fault_scenario(smp, faulttups, times[i], <<1, 1>>, <<"ind">>,
                                              <<1, 1>>)
       IN IF r.raised THEN r
          ELSE TimesLoop(r, faulttups, times, weights, n_joint, i + 1)

\* add_fault_times: the outer loop "for faulttups in jointfaults"
RECURSIVE FaultsLoop(_, _, _, _, _)
FaultsLoop(smp, jointfaults, times, weights, n_joint) ==
  IF jointfaults = <<>> THEN smp
  ELSE LET r == TimesLoop(smp, Head(jointfaults), times, weights, n_joint, 1)
       IN IF r.raised THEN r
          ELSE FaultsLoop(r, Tail(jointfaults), times, weights, n_joint)

\* FaultSample.add_fault_times(times, weights, n_joint) on the domain d
add_fault_times(smp, d, times, weights, n_joint) ==
  FaultsLoop(Sample(smp.scenarios, smp.times, FALSE), combinations(d, n_joint),
             times, weights, n_joint)

\* gen_interval_times([0, sp.times[-1]], sp.dt): the times of the simulation
gen_interval_times == sp.times

\* round(num / den) of Python and numpy for a fraction that is not negative:
\* halves go to the even neighbour
Round(num, den) ==
  LET q == num \div den
      r == num % den
  IN IF 2 * r < den THEN q
     ELSE IF 2 * r > den THEN q + 1
     ELSE IF q % 2 = 0 THEN q ELSE q + 1

\* np.quantile(times, qnum / qden), as <<numerator, denominator>>: the data
\* are sorted and the point at (len - 1) * q is interpolated linearly
quantile(times, qnum, qden) ==
  LET x == SortSeq(times, LAMBDA a, b : a < b)
      h == qnum * (Len(x) - 1)
      lo == h \div qden
      r == h % qden
  IN IF r = 0 THEN <<x[lo + 1] * qden, qden>>
     ELSE <<x[lo + 1] * qden + r * (x[lo + 2] - x[lo + 1]), qden>>

\* sample_times_even(times, numpts, dt): every time if numpts + 2 is more
\* than there are, else the quantiles p/(numpts+1) for p = 1..numpts, each
\* rounded to a multiple of dt; the weights are 1/len(sampletimes)
sample_times_even(times, numpts, dt) ==
  LET sampletimes ==
        IF numpts + 2 > Len(times) THEN times
        ELSE [p \in 1..numpts |->
                LET pt == quantile(times, p, numpts + 1)
                IN Round(pt[1], pt[2] * dt) * dt]
  IN [sampletimes |-> sampletimes,
      weights |-> [i \in 1..Len(sampletimes) |-> <<1, Len(sampletimes)>>]]

\* the sum of a list of numbers
RECURSIVE Sum(_)
Sum(q) == IF q = <<>> THEN 0 ELSE Head(q) + Sum(Tail(q))

\* sample_times_quad(times, nodes, weights), a node being given in quarters
\* (node k stands for k/4, its quantile k/8 + 4/8): more nodes than times
\* raises; else int(round(np.quantile(times, q))) for every quantile, and the
\* weights over their sum
sample_times_quad(times, nodes, weights) ==
  IF Len(nodes) > Len(times)
  THEN [raised |-> TRUE, sampletimes |-> <<>>, weights |-> <<>>]
  ELSE [raised |-> FALSE,
        sampletimes |-> [i \in 1..Len(nodes) |->
                           LET pt == quantile(times, nodes[i] + 4, 8)
                           IN Round(pt[1], pt[2])],
        weights |-> [i \in 1..Len(weights) |-> <<weights[i], Sum(weights)>>]]

\* PhaseMap.get_sample_times(*phases_to_sample): the times of every phase
\* asked for (of every phase of the map when none is named), a phase that
\* is not in the map giving nothing
get_sample_times(phasemap, phases_to_sample) ==
  LET wanted == IF phases_to_sample = <<>> THEN [i \in 1..Len(phasemap) |-> phasemap[i].name]
                ELSE phases_to_sample
      known == SelectSeq(wanted, LAMBDA nm : \E i \in 1..Len(phasemap) : phasemap[i].name = nm)
  IN [k \in 1..Len(known) |->
        LET ph == phasemap[CHOOSE i \in 1..Len(phasemap) : phasemap[i].name = known[k]]
        IN [phase |-> ph.name, times |-> [j \in 1..(ph.end - ph.start + 1) |-> ph.start + j - 1]]]

\* add_fault_phases: "if self.phasemap: phasetimes = self.phasemap
\* .get_sample_times(*phases_to_sample) else: phasetimes = {'phase':
\* gen_interval_times(interval, tstep)}"
phasetimes(phases_to_sample) ==
  IF fs.phasemap # <<>> THEN get_sample_times(fs.phasemap, phases_to_sample)
  ELSE << [phase |-> "phase", times |-> gen_interval_times] >>

\* add_fault_phases: "loc_method = phase_methods.get(phase, method)", the
\* dictionary being a set of <<phase, method>> pairs
loc_method(phase_methods, phase, method) ==
  IF \E pm \in phase_methods : pm[1] = phase
  THEN (CHOOSE pm \in phase_methods : pm[1] = phase)[2]
  ELSE method

\* add_fault_phases: the loop "for phase, times in phasetimes.items()" with
\* the default args (1,): 'even' samples one time, 'quad' is called without
\* its weights and raises, 'all' takes every time, any other method raises
RECURSIVE PhasesLoop(_, _, _, _, _, _)
PhasesLoop(smp, d, pts, method, phase_methods, n_joint) ==
  IF pts = <<>> THEN smp
  ELSE LET times == Head(pts).times
           lm == loc_method(phase_methods, Head(pts).phase, method)
           r == IF lm = "even"
                THEN add_fault_times(smp, d, sample_times_even(times, 1, sp.dt).sampletimes,
                                     sample_times_even(times, 1, sp.dt).weights, n_joint)
                ELSE IF lm = "all"
                THEN add_fault_times(smp, d, times,
                                     [i \in 1..Len(times) |-> <<1, Len(times)>>], n_joint)
                ELSE Sample(smp.scenarios, smp.times, TRUE)
       IN IF r.raised THEN r
          ELSE PhasesLoop(r, d, Tail(pts), method, phase_methods, n_joint)

\* FaultSample.add_fault_phases(*phases_to_sample, method=method,
\* phase_methods=phase_methods, n_joint=n_joint)
add_fault_phases(smp, d, phases_to_sample, method, phase_methods, n_joint) ==
  PhasesLoop(Sample(smp.scenarios, smp.times, FALSE), d, phasetimes(phases_to_sample),
             method, phase_methods, n_joint)

\* a call on the sample ends: what it left, and whether it raised
SampleCall(r) ==
  /\ fs.calls < MaxSamples
  /\ fs' = [scenarios |-> r.scenarios, times |-> r.times, calls |-> fs.calls + 1,
            raised |-> r.raised, phasemap |-> fs.phasemap]
  /\ UNCHANGED <<fn, prob, fd, sr, pl, functionorder, arch, cp, copyrun, blk, bld, cfg, ext, s, m, flows>>
  /\ UNCHANGED callvars

AddSingleFaultScenario(faulttup, time, weight) ==
  SampleCall(add_single_fault_scenario(fs, faulttup, time, weight))

AddJointFaultScenario(faulttups, time, baserate, p_cond) ==
  SampleCall(add_joint_fault_scenario(fs, faulttups, time, <<1, 1>>, baserate, p_cond))

AddFaultTimes(times, weights, n_joint) ==
  SampleCall(add_fault_times(fs, fd.faults, times, weights, n_joint))

AddFaultPhases(phases_to_sample, method, phase_methods, n_joint) ==
  SampleCall(add_fault_phases(fs, fd.faults, phases_to_sample, method, phase_methods, n_joint))

\* the methods, the phases and the methods by phase handed to add_fault_phases
Methods == {"even", "all", "cubic"}

PhasesToSample == { <<>>, <<"on">>, <<"landed">> }

PhaseMethods == { {}, {<<"phase", "all">>}, {<<"on", "all">>} }

\* the rules that fill the domain of the sample
SampleRules == {1, 4}

\* the fault lists handed to add_joint_fault_scenario
JointChoices ==
  { << <<"A", "short">>, <<"C", "open">> >>, << <<"A", "short">>, <<"B", "bogus">> >> }

\* the base rates handed to add_joint_fault_scenario
BaseRates == {<<"ind">>, <<"max">>, <<"C", "open">>, <<"C", "short">>}

\* the time and weight lists handed to add_fault_times
TimesChoices == { <<0>>, <<MaxTime, 0>> }

WeightsChoices == { <<>>, << <<1, 2>> >> }

NextSample ==
  \/ \E i \in SampleRules : DomainRule(i)
  \/ \E faulttup \in ScenFaultChoices, time \in {0, MaxTime}, weight \in Weights :
       AddSingleFaultScenario(faulttup, time, weight)
  \/ \E faulttups \in JointChoices, baserate \in BaseRates, p_cond \in Weights :
       AddJointFaultScenario(faulttups, 0, baserate, p_cond)
  \/ \E times \in TimesChoices, weights \in WeightsChoices, n_joint \in 1..2 :
       AddFaultTimes(times, weights, n_joint)
  \/ \E method \in Methods, phase_methods \in {{}, {<<"phase", "all">>}} :
       AddFaultPhases(<<>>, method, phase_methods, 1)

SpecSample == InitDomain /\ [][NextSample]_vars

\* FaultSample(faultdomain, phasemap=phasemap)
NewFaultSample(phasemap) ==
  /\ fs = EmptySample
  /\ fs' = [EmptySample EXCEPT !.phasemap = phasemap]
  /\ UNCHANGED <<fn, prob, fd, sr, pl, functionorder, arch, cp, copyrun, blk, bld, cfg, ext, s, m, flows>>
  /\ UNCHANGED callvars

\* the time lists handed to add_fault_times on a sample with phases
PhasedTimes == { <<0>>, <<0, 1>>, <<1, 2, 0>> }

NextPhased ==
  \/ \E i \in SampleRules : DomainRule(i)
  \/ \E phasemap \in PhaseMaps : NewFaultSample(phasemap)
  \/ \E times \in PhasedTimes, n_joint \in 1..2 :
       fs.phasemap # <<>> /\ AddFaultTimes(times, <<>>, n_joint)
  \/ \E phases_to_sample \in PhasesToSample, method \in Methods,
        phase_methods \in PhaseMethods :
       fs.phasemap # <<>> /\ AddFaultPhases(phases_to_sample, method, phase_methods, 1)

SpecPhased == InitDomain /\ [][NextPhased]_vars

\* ------------------------- sample.py: sample_times_even, sample_times_quad
\* the last of the times a candidate list is drawn from
MaxCandidate == 4

\* the members of a set of numbers, in increasing order
RECURSIVE Ascending(_)
Ascending(S) ==
  IF S = {} THEN <<>>
  ELSE LET mn == CHOOSE x \in S : \A y \in S : x <= y
       IN <<mn>> \o Ascending(S \ {mn})

\* the candidate time lists: the increasing lists of times up to MaxCandidate
TimeLists == {Ascending(S) : S \in (SUBSET (0..MaxCandidate)) \ {{}}}

\* the quadratures: nodes in quarters, and their weights
Quadratures ==
  { [nodes |-> <<-2, 2>>, weights |-> <<1, 1>>],
    [nodes |-> <<-2>>, weights |-> <<1>>],
    [nodes |-> <<-3, 0, 3>>, weights |-> <<1, 2, 1>>],
    [nodes |-> <<0>>, weights |-> <<2>>] }

\* a call sample_times_even(times, numpts, dt=dt)
SampleTimesEven(times, numpts, dt) ==
  /\ LET r == sample_times_even(times, numpts, dt)
     IN fn' = [op |-> "even", times |-> times, numpts |-> numpts, dt |-> dt,
               nodes |-> <<>>, weights |-> <<>>, raised |-> FALSE,
               sampletimes |-> r.sampletimes, outweights |-> r.weights]
  /\ UNCHANGED <<prob, fd, fs, sr, pl, functionorder, arch, cp, copyrun, blk, bld,
                 cfg, ext, s, m, flows>>
  /\ UNCHANGED callvars

\* a call sample_times_quad(times, nodes, weights)
SampleTimesQuad(times, nodes, weights) ==
  /\ LET r == sample_times_quad(times, nodes, weights)
     IN fn' = [op |-> "quad", times |-> times, numpts |-> 0, dt |-> 1,
               nodes |-> nodes, weights |-> weights, raised |-> r.raised,
               sampletimes |-> r.sampletimes, outweights |-> r.weights]
  /\ UNCHANGED <<prob, fd, fs, sr, pl, functionorder, arch, cp, copyrun, blk, bld,
                 cfg, ext, s, m, flows>>
  /\ UNCHANGED callvars

NextTimes ==
  \/ \E times \in TimeLists, numpts \in 1..3, dt \in 1..2 : SampleTimesEven(times, numpts, dt)
  \/ \E times \in TimeLists, q \in Quadratures : SampleTimesQuad(times, q.nodes, q.weights)

SpecTimes == InitDomain /\ [][NextTimes]_vars

\* ------------------------------------------------- BaseProblem, Constraint
\* number of calls made on one problem
MaxProblemCalls == 3

\* Constraint(varname, threshold=threshold, comparator=comparator,
\* negative=negative): a dataobject, its fields are stored as given and its
\* value is nan (here the empty list) until the first update
Constraint(threshold, comparator, negative) ==
  [threshold |-> threshold, comparator |-> comparator, negative |-> negative,
   value |-> <<>>]

\* Objective.obj_from_value(value)
obj_from_value(con, value) == IF con.negative THEN 0 - value ELSE value

\* Constraint.con_from_value(value): threshold - value for 'greater', value -
\* threshold for 'less', an exception for any other comparator
con_from_value(con, value) ==
  IF con.comparator = "greater"
  THEN [raised |-> FALSE, value |-> obj_from_value(con, con.threshold - value)]
  ELSE IF con.comparator = "less"
  THEN [raised |-> FALSE, value |-> obj_from_value(con, value - con.threshold)]
  ELSE [raised |-> TRUE, value |-> 0]

\* a call on the problem ends
ProblemCall(constraints, last, raised) ==
  /\ prob.calls < MaxProblemCalls
  /\ prob' = [constraints |-> constraints, last |-> last, raised |-> raised,
              calls |-> prob.calls + 1]
  /\ UNCHANGED <<fn, fd, fs, sr, pl, functionorder, arch, cp, copyrun, blk, bld, cfg, ext, s, m, flows>>
  /\ UNCHANGED callvars

\* BaseProblem.add_constraint(name, varname, threshold=..., comparator=...,
\* negative=...): self.constraints[name] = conclass(varname, **kwargs)
add_constraint(name, threshold, comparator, negative) ==
  ProblemCall([k \in DOMAIN prob.constraints \cup {name} |->
                 IF k = name THEN Constraint(threshold, comparator, negative)
                 ELSE prob.constraints[k]],
              "add_constraint", FALSE)

\* Constraint.update(value) on the constraint of the name, as the problem
\* does when it evaluates its constraints: self.value = con_from_value(value)
update(name, value) ==
  /\ name \in DOMAIN prob.constraints
  /\ LET r == con_from_value(prob.constraints[name], value)
     IN ProblemCall(IF r.raised THEN prob.constraints
                    ELSE [prob.constraints EXCEPT ![name].value = <<r.value>>],
                    "update", r.raised)

\* the names, comparators, thresholds and values handed to the problem
ConNames == {"g1", "g2"}

Comparators == {"greater", "less", "equal"}

Thresholds == {0, 1}

ConValues == {0, 2}

NextProblem ==
  \/ \E name \in ConNames, threshold \in Thresholds, comparator \in Comparators,
        negative \in BOOLEAN :
       add_constraint(name, threshold, comparator, negative)
  \/ \E name \in ConNames, value \in ConValues : update(name, value)

SpecProblem == InitDomain /\ [][NextProblem]_vars

\* ================================================================ claims
\* position of a block in the insertion order
Index(f) == CHOOSE i \in 1..Len(fxnorder) : fxnorder[i] = f

\* a propagate call is running or has ended
InPropagate == call.kind = "propagate"

\* the last call has returned normally
Returned == pc = "idle" /\ call.kind # "none"

\* C1: within one Model.propagate call every disturbance is applied before any
\* behaviour runs, every dynamic block is invoked exactly once in the dynamic
\* pass with the faults scheduled for it, and no static behaviour runs before
\* the dynamic pass has finished
C1_DynamicPassOnceBeforeStatic ==
  InPropagate =>
    /\ ((statcalls > 0 \/ \E f \in Fxns : dyncalls[f] > 0)
          => distqueue = <<>> /\ pc # "set_vars" /\ err.kind # "set_vars")
    /\ \A f \in Fxns : dyncalls[f] <= 1
    /\ (pc = "dynamic" => \A f \in Range(dynqueue) : dyncalls[f] = 0)
    /\ ((statcalls > 0 \/ pc \in {"static", "idle"}) =>
          /\ dynqueue = <<>>
          /\ \A f \in Fxns : cfg.dyn[f] # "none" =>
                /\ dyncalls[f] = 1
                /\ dynfaults[f] = GetFaults(call.fxnfaults, f))

\* C1 witness: a static behaviour has run in a call with a dynamic block, a
\* scheduled fault for that block and a disturbance
C1_Witness ==
  /\ InPropagate
  /\ statcalls > 0
  /\ cfg.dyn["A"] = "write"
  /\ GetFaults(call.fxnfaults, "A") = {"short"}
  /\ call.disturbances # <<>>
  /\ dyncalls["A"] = 1

C3_CeilingOrFixedPoint ==
  /\ n <= MaxPasses + 1
  /\ lastpass.n <= MaxPasses + 1
  /\ (Returned => activefxns = {} /\ n <= MaxPasses /\ err.kind = "none")
  /\ (pc = "raised" /\ err.kind \in {"looping", "static propagation"}
        => n = MaxPasses + 1 /\ lastpass.n = n)
  /\ (lastpass.n >= 1 /\ lastpass.n <= MaxPasses /\ lastpass.next = {} => Returned)
  /\ (lastpass.n >= 1 /\ lastpass.n <= MaxPasses /\ lastpass.next # {} => pc = "static")
  /\ (lastpass.n > MaxPasses => pc = "raised")

\* C3 witness: two blocks that toggle the flow they share have hit the ceiling
C3_Witness ==
  /\ cfg.stat["A"] = "toggle"
  /\ cfg.stat["B"] = "toggle"
  /\ pc = "raised"
  /\ err.kind \in {"looping", "static propagation"}
  /\ n = MaxPasses + 1
  /\ activefxns # {}

\* C4: the error propagate delivers when the static step does not converge
\* names the time step and the blocks that remained active
C4_ErrorNamesTimeAndActive ==
  (InPropagate /\ pc = "raised" /\ n > MaxPasses) =>
    /\ {"time", "active"} \subseteq err.reports
    /\ err.time = call.time
    /\ err.active = activefxns

\* C5: in every pass the active blocks are visited in insertion order
C5_VisitedInInsertionOrder ==
  \A i, j \in 1..Len(visited) : i < j => Index(visited[i]) < Index(visited[j])

\* no static behaviour changes the block and flow state w
IsFixedPoint(w) == \A f \in Fxns : cfg.stat[f] # "none" => StaticBehavior(f, w) = w

\* C7: prop_static called again at the fixed point it returned at runs one
\* pass that changes no block and no flow and leaves no block active
C7_FixedPointIdempotent ==
  (call.kind = "prop_static" /\ calls >= 2 /\ IsFixedPoint(pre)) =>
    /\ World = pre
    /\ (lastpass.n >= 1 => lastpass.own = {} /\ lastpass.seen = {} /\ lastpass.next = {})
    /\ n <= 1
    /\ (pc = "idle" => n = 1 /\ lastpass.n = 1)
    /\ pc # "raised"

\* C7 witness: the second call, a prop_static, has returned after a step in
\* which the static behaviours had changed blocks and flows
C7_Witness ==
  /\ call.kind = "prop_static"
  /\ calls >= 2
  /\ IsFixedPoint(pre)
  /\ pc = "idle"
  /\ n = 1
  /\ s["C"] = 1
  /\ flows["flow2"] = 1

\* the chain of C8: only A is dynamic and writes flow1, B copies flow1 into
\* flow2, C reads flow2; one propagate at t=0, no faults, no disturbances
ChainStep ==
  /\ cfg.dyn = [f \in Fxns |-> IF f = "A" THEN "write" ELSE "none"]
  /\ cfg.stat = [f \in Fxns |-> IF f = "A" THEN "none" ELSE IF f = "B" THEN "copy" ELSE "read"]
  /\ InPropagate
  /\ call.time = 0
  /\ call.fxnfaults = <<>>
  /\ call.disturbances = <<>>

\* C8 as stated: C observes A's output after exactly 2 static passes and the
\* fixed point is reached on pass 3
C8_TwoPassesThenThird ==
  ChainStep =>
    /\ (lastpass.n = 1 => s["C"] # 1)
    /\ (lastpass.n >= 2 => s["C"] = 1)
    /\ (Returned => n = 3)

\* C8 amended: C observes A's output after the first static pass (B and C run
\* in order in that pass, on the flow they share) and the fixed point is
\* reached on pass 2
C8_OnePassThenSecond ==
  ChainStep =>
    /\ (pc = "static" /\ lastpass.n = 0 /\ passqueue = <<"B", "C">> => s["C"] = 0)
    /\ (lastpass.n >= 1 => s["C"] = 1 /\ flows["flow1"] = 1 /\ flows["flow2"] = 1)
    /\ (lastpass.n = 1 => lastpass.next = {"B", "C"})
    /\ (lastpass.n = 2 => lastpass.next = {} /\ lastpass.own = {} /\ lastpass.seen = {})
    /\ n <= 2
    /\ (Returned => n = 2)

\* C8 witness: the chain's step has returned with C holding A's output
C8_Witness == ChainStep /\ Returned /\ s["C"] = 1 /\ n = 2

\* C6: a copy of the model stepped with the time, faults and disturbances of
\* the original's step ends in the block and flow state the original ended in
C6_CopyEndsInSameState ==
  (copyrun.stage = "copy" /\ calls = copyrun.calls /\ pc = "idle")
    => World = copyrun.result

C10_FlowIdentityShared ==
  \A f \in Fxns, fl \in Flows :
    bld.fxns[f][fl] # 0 =>
      /\ bld.fxns[f][fl] = bld.flows[fl]
      /\ bld.heap[bld.fxns[f][fl]] = bld.heap[bld.flows[fl]]

\* C11: the dynamic pass and the first static pass of a propagate call visit
\* the blocks in the order held by functionorder (the insertion order unless
\* an order was supplied)
C11_SuppliedOrderIsFollowed ==
  /\ (pc = "dynamic" => dynqueue = SelectSeq(functionorder, LAMBDA f : f \in Range(dynqueue)))
  /\ (call.kind = "propagate" /\ pc = "static" /\ n = 0 =>
        visited \o passqueue = Ordered(functionorder, staticfxns))

\* a disturbance of the running call whose first path element names nothing
HasUnresolvedPath ==
  \E i \in 1..Len(call.disturbances) :
    call.disturbances[i][1][1] \notin {"seed", "functions", "fxns", "flows"} \cup Fxns \cup Flows

\* C12: a propagate call with a disturbance whose path does not resolve ends
\* in an error raised by set_vars, and no dynamic or static behaviour of any
\* block runs in that call
C12_InvalidPathRunsNothing ==
  (call.kind = "propagate" /\ HasUnresolvedPath) =>
    /\ pc \in {"set_vars", "raised"}
    /\ (pc = "raised" => err.kind = "set_vars")
    /\ \A f \in Fxns : dyncalls[f] = 0
    /\ statcalls = 0

\* C12 witness: the call on a model with a dynamic and a static block has
\* raised on the unresolved path
C12_Witness ==
  /\ call.kind = "propagate"
  /\ HasUnresolvedPath
  /\ pc = "raised"
  /\ err.kind = "set_vars"
  /\ cfg.dyn["A"] # "none"
  /\ staticfxns # {}

\* C13: inject_faults never passes over a requested fault: a call that was
\* handed a name that is not in faultmodes has raised
C13_UnknownFaultIsFatal ==
  (\E fault \in arch.requested : fault \notin faultmodes) => arch.raised

\* C14: no step of the engine (the scheduled faults of Block.propagate,
\* inject_faults, choose_rand_fault) takes a fault out of a block's active set
C14_FaultsOnlyAdded == [][\A f \in Fxns : m[f] \subseteq m'[f]]_vars

\* C14 witness: block A, faulted earlier, has gone through a later propagate
\* call that scheduled no fault and an injection, and is still faulted
C14_Witness ==
  /\ blk.pc = "done"
  /\ blk.f = "A"
  /\ blk.calls = 2
  /\ blk.faults = {}
  /\ arch.calls >= 1
  /\ "short" \in m["A"]

\* the value of object id of the flow heap, 0 standing for "no object"
Deref(id) == IF id = 0 THEN -1 ELSE bld.heap[id]

\* every flow and function state of the original
OriginalView ==
  [flows |-> [fl \in Flows |-> Deref(bld.flows[fl])],
   fxns |-> [f \in Fxns |-> [fl \in Flows |-> Deref(bld.fxns[f][fl])]],
   state |-> [f \in Fxns |-> cp.sheap[Pos(f)]]]

\* every flow and function state of the copy
CopyView ==
  [flows |-> [fl \in Flows |-> Deref(cp.flows[fl])],
   fxns |-> [f \in Fxns |-> [fl \in Flows |-> Deref(cp.fxns[f][fl])]],
   state |-> [f \in Fxns |-> IF cp.made THEN cp.sheap[cp.state[f]] ELSE -1]]

\* C15: once a copy is made, nothing done to the copy changes a flow or
\* function state of the original, nothing done to the original changes one
\* of the copy, and the copy's blocks bound to a flow name hold the copy's
\* own object of that name
C15_CopyIsIndependent ==
  /\ [](cp.made => \A f \in Fxns, fl \in Flows :
                     cp.fxns[f][fl] # 0 => cp.fxns[f][fl] = cp.flows[fl])
  /\ [][ /\ (CopyStep => OriginalView' = OriginalView)
         /\ (cp.made /\ OriginalStep => CopyView' = CopyView) ]_vars

\* C15 witness: a copy of a model with two blocks on one flow was made, both
\* sides were written, and the flow and block A now differ between them
C15_Witness ==
  /\ cp.made
  /\ cp.fxns["A"]["flow1"] # 0
  /\ cp.fxns["B"]["flow1"] # 0
  /\ Deref(cp.flows["flow1"]) # Deref(bld.flows["flow1"])
  /\ cp.sheap[cp.state["A"]] # cp.sheap[Pos("A")]

\* C16: in proplist, the results recorded for a scenario are those of that
\* scenario simulated alone from the initial state, whatever ran before it,
\* with reuse True or False
C16_ScenariosRunFromInitialState ==
  \A k \in 1..Len(pl.resultsdict) :
    pl.resultsdict[k] = runonefault(InitialWorld, listinitfaults[k], pl.order).endresults

\* C16 witness: with reuse, a scenario that leaves a fault and a changed flow
\* behind has run, and a later scenario of another function has its results
C16_Witness ==
  /\ pl.stage = "done"
  /\ pl.reuse
  /\ pl.resultsdict[1].faults # {}
  /\ pl.resultsdict[1].flows # {}
  /\ Len(pl.resultsdict) = Len(listinitfaults)
  /\ \A f \in Fxns : <<f, {"short"}>> \notin pl.resultsdict[Len(listinitfaults)].faults

\* the keys of a domain's faults dict
DomainKeys(d) == {d[i] : i \in 1..Len(d)}

\* C17: FaultDomain accumulates faults by (block, mode): after any rules, in
\* any order, the keys are the union of the rules' selections; no rule removes
\* a key; a rule applied a second time leaves the faults as they were
C17_DomainAccumulates ==
  /\ [](DomainKeys(fd.faults) = fd.sel)
  /\ [][/\ DomainKeys(fd.faults) \subseteq DomainKeys(fd'.faults)
        /\ (fd'.repeated /\ fd'.last = fd.last => fd'.faults = fd.faults)]_vars

\* a rule was applied twice in a row to a domain filled in another order than
\* the order of the model's functions
C17_Witness ==
  /\ fd.repeated /\ ~fd.raised
  /\ Len(fd.faults) >= 3
  /\ fd.faults[1] # AllFaults[1]

\* the last rule was add_fault, with a block or a mode that does not exist
UndefinedAddFault ==
  /\ fd.last > 0
  /\ DomainRules[fd.last].kind = "add_fault"
  /\ ~Defined(DomainRules[fd.last].args)

\* C18: add_fault with a mode the block does not define raises and leaves
\* the faults of the domain as they were; get_scen_rate for such a mode
\* raises
C18_UndefinedModeIsFatal ==
  /\ []((UndefinedAddFault => fd.raised) /\ (sr.called /\ ~Defined(sr.fault) => sr.raised))
  /\ [][UndefinedAddFault' /\ fd'.raised => fd'.faults = fd.faults]_vars

\* both calls were made with an undefined mode, the domain holding faults
C18_Witness ==
  /\ UndefinedAddFault /\ fd.raised /\ fd.faults # <<>>
  /\ sr.called /\ sr.fault = <<"B", "bogus">> /\ sr.raised
\* the times at which the scenarios of the sample occur
ScenarioTimes == {fs.scenarios[i].time : i \in 1..Len(fs.scenarios)}

\* C19: after any calls on a FaultSample, those that raised included, times()
\* is the set of the times of the scenarios in scenarios()
C19_TimesAreScenarioTimes == fs.times = ScenarioTimes

\* the single-fault scenarios the sample holds
Singles == {i \in 1..Len(fs.scenarios) : fs.scenarios[i].joint_faults = 1}

\* C20: two single-fault scenarios of a sample made from the same block, mode,
\* time and weight have the same name and the same rate, whatever was added
\* to the domain and to the sample before each of them
C20_SameInputsSameScenario ==
  \A i, j \in Singles :
    ( /\ fs.scenarios[i].function = fs.scenarios[j].function
      /\ fs.scenarios[i].fault = fs.scenarios[j].fault
      /\ fs.scenarios[i].time = fs.scenarios[j].time
      /\ fs.scenarios[i].weight = fs.scenarios[j].weight )
    => /\ fs.scenarios[i].name = fs.scenarios[j].name
       /\ fs.scenarios[i].rate = fs.scenarios[j].rate

\* the same single fault was added twice, with scenarios of other faults
\* between the two, from a domain of several faults
C20_Witness ==
  \E i, j \in Singles :
    /\ j > i + 1
    /\ fs.scenarios[i].function = fs.scenarios[j].function
    /\ fs.scenarios[i].fault = fs.scenarios[j].fault
    /\ fs.scenarios[i].time = fs.scenarios[j].time
    /\ fs.scenarios[i].weight = fs.scenarios[j].weight
    /\ \E k \in Singles : i < k /\ k < j /\ fs.scenarios[k].fault # fs.scenarios[i].fault
    /\ Len(fd.faults) >= 3

\* the scenarios a call has added to the sample
Added == (Len(fs.scenarios) + 1)..Len(fs'.scenarios)

\* C21: add_fault_times on a sample with a phase map and no weights gives each
\* single-fault scenario at time t the weight 1/(number of the supplied times
\* in the phase of t), so that the weights of the scenarios of one fault in
\* one phase sum to 1
C21_PhaseWeights ==
  [][\A times \in PhasedTimes :
       ( /\ fs.phasemap # <<>>
         /\ fs'.calls = fs.calls + 1
         /\ fs'.times \subseteq fs.times \cup Range(times)
         /\ Len(fs'.scenarios) <= Len(fs.scenarios) + Len(times) * Len(fd.faults)
         /\ AddFaultTimes(times, <<>>, 1) ) =>
         \A i \in Added :
           LET scen == fs'.scenarios[i]
               phase == find_base_phase(fs.phasemap, scen.time)
               same == {j \in Added :
                         /\ fs'.scenarios[j].function = scen.function
                         /\ fs'.scenarios[j].fault = scen.fault
                         /\ find_base_phase(fs.phasemap, fs'.scenarios[j].time) = phase}
           IN /\ scen.weight[1] = 1
              /\ scen.weight[2] =
                   Cardinality({k \in 1..Len(times) :
                                  find_base_phase(fs.phasemap, times[k]) = phase})
              /\ Cardinality(same) = scen.weight[2]]_vars

\* a sample with two phases holds, for one fault, two scenarios of weight 1/2
\* in one phase and one of weight 1 in the other
C21_Witness ==
  /\ Len(fs.phasemap) = 2
  /\ \E i, j, k \in Singles :
       /\ i # j
       /\ fs.scenarios[i].fault = fs.scenarios[j].fault
       /\ fs.scenarios[i].function = fs.scenarios[j].function
       /\ fs.scenarios[k].fault = fs.scenarios[i].fault
       /\ fs.scenarios[k].function = fs.scenarios[i].function
       /\ fs.scenarios[i].weight = <<1, 2>> /\ fs.scenarios[j].weight = <<1, 2>>
       /\ fs.scenarios[i].time # fs.scenarios[j].time
       /\ fs.scenarios[k].weight = <<1, 1>>
       /\ fs.calls = 1

\* the fractions a and b are the same number
FracEq(a, b) == a[1] * b[2] = b[1] * a[2]

\* the rate of the single-fault scenario of the fault at the time, weight 1
SingleRate(faulttup, time) == get_scen_rate(faulttup[1], faulttup[2], time, <<1, 1>>).rate

\* the scenario a call has appended to the sample
NewScen == fs'.scenarios[Len(fs'.scenarios)]

SumsToOne(ws) ==
  /\ ws # <<>>
  /\ \A i \in 1..Len(ws) : ws[i][2] = ws[1][2]
  /\ Sum([i \in 1..Len(ws) |-> ws[i][1]]) = ws[1][2]

\* C23: sample_times_even(times, n) returns n times, none of them the first
\* or the last candidate, each of weight 1/n, whenever n + 2 <= len(times);
\* otherwise every candidate, with equal weights that sum to 1
C23_EvenSamplesInterior ==
  fn.op = "even" =>
    IF fn.numpts + 2 <= Len(fn.times)
    THEN /\ Len(fn.sampletimes) = fn.numpts
         /\ \A i \in 1..fn.numpts :
              /\ fn.sampletimes[i] > fn.times[1]
              /\ fn.sampletimes[i] < fn.times[Len(fn.times)]
              /\ fn.outweights[i] = <<1, fn.numpts>>
    ELSE /\ fn.sampletimes = fn.times
         /\ SumsToOne(fn.outweights)
         /\ \A i \in 1..Len(fn.outweights) : fn.outweights[i] = fn.outweights[1]

\* the distance of the candidate c from the point pt, times the denominator
Dist(c, pt) == IF c * pt[2] >= pt[1] THEN c * pt[2] - pt[1] ELSE pt[1] - c * pt[2]

\* C24: sample_times_quad returns for every node x the candidate time nearest
\* to the quantile x/2 + 0.5 of the candidates, so a member of the candidate
\* list, with the weights normalised to sum to 1
C24_QuadSamplesAreCandidates ==
  fn.op = "quad" /\ ~fn.raised =>
    /\ Len(fn.sampletimes) = Len(fn.nodes)
    /\ \A i \in 1..Len(fn.nodes) :
         LET pt == quantile(fn.times, fn.nodes[i] + 4, 8)
         IN /\ \E k \in 1..Len(fn.times) : fn.times[k] = fn.sampletimes[i]
            /\ \A k \in 1..Len(fn.times) :
                 Dist(fn.sampletimes[i], pt) <= Dist(fn.times[k], pt)
    /\ SumsToOne(fn.outweights)
\* C25: a call of add_fault_phases with a method other than 'even', 'quad'
\* and 'all' raises, whichever phases are sampled and whatever methods are
\* given for single phases
C25_InvalidMethodRaises ==
  [][\A phases_to_sample \in PhasesToSample, phase_methods \in PhaseMethods, n_joint \in 1..2 :
       AddFaultPhases(phases_to_sample, "cubic", phase_methods, n_joint) => fs'.raised]_vars

\* C26: a constraint whose comparator is neither 'greater' nor 'less' is
\* rejected when it is constructed or added to the problem: no call of
\* add_constraint leaves such a constraint in the problem
C26_ComparatorCheckedWhenAdded ==
  \A name \in DOMAIN prob.constraints :
    prob.constraints[name].comparator \in {"greater", "less"}

\* a function or flow of the model that no add_fxn call has connected
Unconnected ==
  {f \in bld.added : \A fl \in Flows : <<f, fl>> \notin bld.fxnflows}
  \cup {fl \in Flows : bld.flows[fl] # 0 /\ \A f \in Fxns : <<f, fl>> \notin bld.fxnflows}

\* C27: build raises exactly when connections are required and some function
\* or flow has no connection in the bipartite graph; a build with the default
\* that succeeds leaves no function or flow without a connection
C27_BuildRequiresConnections ==
  [][\A require_connections \in BOOLEAN :
       Build(require_connections) =>
         /\ (bld'.built = "raised") <=> (require_connections /\ Unconnected # {})
         /\ (require_connections /\ bld'.built = "ok") => Unconnected = {}]_vars

\* a model of two functions and two flows was built with the default
C27_Witness ==
  /\ bld.built = "ok"
  /\ bld.require_connections
  /\ Cardinality(bld.added) >= 2
  /\ \A fl \in Flows : bld.flows[fl] # 0

\* C28: a call of Architecture.reset completes without error and leaves
\* every object of the flexible roles in its initial state
C28_ResetCompletes ==
  [][ArchitectureReset =>
       /\ ~arch'.raised
       /\ \A f \in Fxns : m'[f] = {} /\ s'[f] = 0]_vars

\* the rate a scenario of the faults at the time has when the weight is
\* applied to it
WeightedRate(faulttups, time, weight) ==
  IF Len(faulttups) = 1
  THEN get_scen_rate(faulttups[1][1], faulttups[1][2], time, weight).rate
  ELSE joint_rate(faulttups, JointRates(faulttups, time, weight).rates, <<"ind">>, <<1, 1>>).rate

\* C29: add_fault_times applies the weight it determines for a time to the
\* rate of every scenario it adds at that time, to a joint scenario
\* (n_joint = 2) as to a single-fault one
C29_WeightAppliedToJoint ==
  [][\A times \in TimesChoices, weights \in WeightsChoices, n_joint \in 1..2 :
       AddFaultTimes(times, weights, n_joint) /\ ~fs'.raised =>
         LET jointfaults == combinations(fd.faults, n_joint)
         IN \A c \in 1..Len(jointfaults), i \in 1..Len(times) :
              LET scen == fs'.scenarios[Len(fs.scenarios) + (c - 1) * Len(times) + i]
              IN FracEq(scen.rate,
                        WeightedRate(jointfaults[c], times[i],
                                     sample_weight(times, weights, i)))]_vars

\* C30: at the start of every pass of prop_static, the first pass of a call
\* included, the baseline a flow is compared with in that pass is the value
\* the flow has at the start of the pass
C30_BaselineIsPassStart ==
  (pc = "static" /\ visited = <<>>) =>
    \A fl \in staticflows : flowstates[fl] = flows[fl]

\* the blocks of the model a propagate call has faults scheduled for
FaultedBlocks == Keys(call.fxnfaults) \cap Fxns

\* C31: in a propagate call no block is invoked 'dynamic' more than once; a
\* block is invoked with the faults scheduled for it; a block that has faults
\* scheduled and no dynamic behaviour is invoked after every dynamic block;
\* once the static step has begun every scheduled block has been invoked and
\* holds its faults; and when a scheduled name is no block of the model the
\* static step never begins: the name stays ahead in the dynamic pass until
\* the call raises
C31_FaultedBlocksInvokedOnce ==
  (call.kind = "propagate") =>
    /\ \A f \in Fxns :
         /\ dyncalls[f] <= 1
         /\ (dyncalls[f] = 1 =>
               /\ dynfaults[f] = GetFaults(call.fxnfaults, f)
               /\ GetFaults(call.fxnfaults, f) \subseteq m[f])
    /\ \A f \in FaultedBlocks \ dynamicfxns :
         dyncalls[f] = 1 => \A g \in dynamicfxns : dyncalls[g] = 1
    /\ ((statcalls > 0 \/ pc \in {"static", "idle"}) =>
          \A f \in FaultedBlocks \cup dynamicfxns : dyncalls[f] = 1)
    /\ (~(Keys(call.fxnfaults) \subseteq Fxns) =>
          /\ statcalls = 0
          /\ pc \in {"set_vars", "dynamic", "raised"}
          /\ (pc = "dynamic" => \E f \in Range(dynqueue) : f \notin Fxns)
          /\ (pc = "raised" => err.kind \in {"KeyError", "set_vars"}))

\* C31 witness: a call that scheduled faults for the blocks C and B, neither
\* of them dynamic, in a model whose block A is dynamic, has reached the
\* static step
C31_Witness ==
  /\ call.kind = "propagate"
  /\ Keys(call.fxnfaults) = {"B", "C"}
  /\ cfg.dyn["A"] = "write"
  /\ statcalls > 0
  /\ dyncalls = [f \in Fxns |-> 1]
  /\ "open" \in m["C"] /\ "short" \in m["B"]

\* the object a path of a disturbance ends in, and whether it names one
PathTarget(var) ==
  LET q == IF var[1] \in {"functions", "fxns", "flows"} THEN Tail(var) ELSE var
  IN [valid |-> \/ Len(q) = 2 /\ q[1] \in Fxns /\ q[2] = "s"
                \/ Len(q) = 2 /\ q[1] \in Flows /\ q[2] = "x",
      name |-> IF q = <<>> THEN "" ELSE q[1]]

\* the state the first k overrides of a list leave when made one after the
\* other on w
RECURSIVE Overridden(_, _, _)
Overridden(w, dd, k) ==
  IF k = 0 THEN w
  ELSE LET w1 == Overridden(w, dd, k - 1)
           name == PathTarget(dd[k][1]).name
       IN IF name \in Fxns THEN [w1 EXCEPT !.s[name] = dd[k][2]]
          ELSE [w1 EXCEPT !.flows[name] = dd[k][2]]

\* C32: set_vars makes the overrides in the order given and takes none back:
\* when it raises on the k-th path, the model is in the state the first k-1
\* overrides leave, and the error is the one the caller of propagate gets
C32_OverridesBeforeErrorStay ==
  (call.kind = "propagate" /\ pc = "raised" /\ err.kind = "set_vars") =>
    LET dd == call.disturbances
        k == Len(dd) - Len(distqueue) + 1
    IN /\ k \in 1..Len(dd)
       /\ ~PathTarget(dd[k][1]).valid
       /\ \A j \in 1..(k - 1) : PathTarget(dd[j][1]).valid
       /\ World = Overridden(pre, dd, k - 1)
       /\ err.context = "none"

\* C32 witness: the second path of a call was invalid, and the override of
\* the first is in the model
C32_Witness ==
  /\ call.kind = "propagate"
  /\ pc = "raised"
  /\ err.kind = "set_vars"
  /\ Len(call.disturbances) = 2
  /\ Len(distqueue) = 1
  /\ pre.s["C"] = 0
  /\ s["C"] = 1

\* C33: faultprop.propagate always returns: every pass of the loop raises
\* the count of passes by one, the loop makes at most MaxPasses + 1 passes,
\* and when the count exceeds MaxPasses the loop is left with the message
\* printed and the call returns, though functions are still on the active set
C33_PropagateReturns ==
  /\ [](fp.stage # "idle" =>
          /\ fp.n <= MaxPasses + 1
          /\ (fp.stage = "loop" => fp.n <= MaxPasses /\ fp.active # {})
          /\ (fp.n > MaxPasses => fp.stage = "returned" /\ fp.printed)
          /\ (fp.stage = "returned" /\ fp.active # {} => fp.n = MaxPasses + 1 /\ fp.printed))
  /\ [][fp.stage = "loop" => fp'.n = fp.n + 1 /\ fp'.stage \in {"loop", "returned"}]_vars

\* C33 witness: a call has returned after pass 1001 with the message
\* printed and all three functions still active
C33_Witness ==
  /\ fp.stage = "returned"
  /\ fp.n = MaxPasses + 1
  /\ fp.printed
  /\ fp.active = Fxns

\* C34: when no update of a function changes the status of a flow, every
\* function leaves the active set in the first pass and the loop ends there,
\* whatever the graph
C34_QuietCallEndsInFirstPass ==
  (fp.stage # "idle" /\ ~fp.changed /\ fp.n >= 1) =>
    /\ fp.n = 1
    /\ fp.active = {}
    /\ fp.stage = "returned"
    /\ ~fp.printed

\* C35: runonefault gives the fault of the scenario to the model at the one
\* step whose time is the time of the scenario and no fault at any other
\* step; a model that started as constructed has the flow statuses of the
\* nominal model at every step before that time
C35_FaultAtScenarioTimeOnly ==
  rof.stage # "idle" =>
    /\ \A k \in 1..Len(rof.hist) :
         /\ rof.hist[k].given[rof.scen.function] =
              (IF k - 1 = rof.scen.time THEN rof.scen.fault ELSE "nom")
         /\ \A f \in Fxns \ {rof.scen.function} : rof.hist[k].given[f] = "nom"
         /\ (rof.start = InitialWorld /\ k - 1 < rof.scen.time) =>
              rof.hist[k].faulty = rof.hist[k].nominal
    /\ rof.stage = "returned" =>
         /\ Len(rof.hist) = MaxTime + 1
         /\ Cardinality({k \in 1..Len(rof.hist) : rof.hist[k].given # NomFaults}) = 1

\* C35 witness: a run with the fault at the last time has returned; the
\* flows were the nominal ones before that time and differ at it
C35_Witness ==
  /\ rof.stage = "returned"
  /\ rof.start = InitialWorld
  /\ rof.scen.time = MaxTime
  /\ \A k \in 1..MaxTime : rof.hist[k].faulty = rof.hist[k].nominal
  /\ rof.hist[MaxTime + 1].faulty # rof.hist[MaxTime + 1].nominal

\* --------------------------------- sample.py: scenarios kept by name
\* the blocks and modes scenarios are made of, and their times
BlockNames == {"a", "a_b"}

ModeNames == {"c", "b_c"}

ScenTimes == {0, 1}

\* the characters of a piece of a name
Letters(piece) ==
  CASE piece = "a_b" -> <<"a", "_", "b">>
    [] piece = "b_c" -> <<"b", "_", "c">>
    [] OTHER -> <<piece>>

\* the string a list of pieces makes when they are put together with "+"
RECURSIVE Written(_)
Written(pieces) ==
  IF pieces = <<>> THEN <<>> ELSE Letters(Head(pieces)) \o Written(Tail(pieces))

\* add_single_fault_scenario(faulttup, time): the scenario is appended under
\* name=create_scenname((faulttup,), time)
AddScenario(faulttup, time) ==
  /\ Len(scn.scenarios) < MaxSamples
  /\ scn' = [scenarios |-> Append(scn.scenarios,
                                  [function |-> faulttup[1], fault |-> faulttup[2], time |-> time,
                                   name |-> Written(create_scenname(<<faulttup>>, time))]),
             got |-> {}, called |-> FALSE]
  /\ UNCHANGED <<modelvars, callvars, aux, fp, rof, pa, simp, app>>

\* get_scens(): "scens = {i.name: i for i in self.scenarios()}": under every
\* name the last scenario that has it (written as its place in the list)
GetScens ==
  /\ ~scn.called
  /\ scn' = [scn EXCEPT !.called = TRUE,
                        !.got = {<<scn.scenarios[i].name, i>> : i \in
                                   {k \in 1..Len(scn.scenarios) :
                                      \A j \in (k + 1)..Len(scn.scenarios) :
                                        scn.scenarios[j].name # scn.scenarios[k].name}}]
  /\ UNCHANGED <<modelvars, callvars, aux, fp, rof, pa, simp, app>>

NextScenarios ==
  \/ \E function \in BlockNames, fault \in ModeNames, time \in ScenTimes :
       AddScenario(<<function, fault>>, time)
  \/ GetScens

SpecScenarios == InitModelCopy /\ [][NextScenarios]_vars

\* C40: scenarios that differ in block, mode or time have different names,
\* so that get_scens holds one entry for every distinct scenario
C40_NamesTellScenariosApart ==
  /\ \A i, j \in 1..Len(scn.scenarios) :
       (\/ scn.scenarios[i].function # scn.scenarios[j].function
        \/ scn.scenarios[i].fault # scn.scenarios[j].fault
        \/ scn.scenarios[i].time # scn.scenarios[j].time)
         => scn.scenarios[i].name # scn.scenarios[j].name
  /\ scn.called =>
       Cardinality(scn.got) =
         Cardinality({<<scn.scenarios[i].function, scn.scenarios[i].fault, scn.scenarios[i].time>> :
                        i \in 1..Len(scn.scenarios)})

\* ------------------------------------------- sample.py: SampleApproach
\* number of SampleApproach objects made
MaxApproaches == 2

\* the models approaches are made for; PhaseMap(mdl.sp.phases) is written
\* as the name of the model
Mdls == {"m1", "m2"}

\* the dict the parameter phasemaps is bound to: the new dict the caller
\* hands over, or the default value of the signature "phasemaps={}", which is
\* made once, when the def is run, and is the first dict of the heap
PhasemapsArg(given) == IF given THEN Len(app.dicts) + 1 ELSE 1

\* SampleApproach(mdl, phasemaps, def_mdl_phasemap): "if def_mdl_phasemap:
\* phasemaps['mdl'] = PhaseMap(self.mdl.sp.phases)", "self.phasemaps = phasemaps"
NewApproach(mdl, given, def_mdl_phasemap) ==
  /\ Len(app.objs) < MaxApproaches
  /\ LET ref == PhasemapsArg(given)
         dicts0 == IF ref > Len(app.dicts)
                   THEN Append(app.dicts, [k \in {"mdl", "extra"} |-> "none"])
                   ELSE app.dicts
         dicts1 == IF def_mdl_phasemap THEN [dicts0 EXCEPT ![ref]["mdl"] = mdl] ELSE dicts0
     IN app' = [dicts |-> dicts1,
                objs |-> Append(app.objs, [mdl |-> mdl, phasemaps |-> ref, given |-> given,
                                           def_mdl_phasemap |-> def_mdl_phasemap,
                                           extra |-> "none"])]
  /\ UNCHANGED <<modelvars, callvars, aux, fp, rof, pa, simp, scn>>

\* approach.phasemaps['extra'] = PhaseMap(...) on the i-th approach
AddPhasemap(i) ==
  /\ i \in 1..Len(app.objs)
  /\ app.objs[i].extra = "none"
  /\ app' = [app EXCEPT !.dicts[app.objs[i].phasemaps]["extra"] = app.objs[i].mdl,
                        !.objs[i].extra = app.objs[i].mdl]
  /\ UNCHANGED <<modelvars, callvars, aux, fp, rof, pa, simp, scn>>

NextApproach ==
  \/ \E mdl \in Mdls, given \in BOOLEAN, def_mdl_phasemap \in BOOLEAN :
       NewApproach(mdl, given, def_mdl_phasemap)
  \/ \E i \in 1..MaxApproaches : AddPhasemap(i)

SpecApproach == InitModelCopy /\ [][NextApproach]_vars

\* C39: approaches made with the default phasemaps argument have dicts of
\* their own: making another approach or adding a phase map to it leaves the
\* phasemaps of the first as they were, with the phase map of its own model
\* under 'mdl'
C39_DefaultPhasemapsIndependent ==
  \A i \in 1..Len(app.objs) :
    ~app.objs[i].given =>
      /\ \A j \in 1..Len(app.objs) : j # i => app.objs[j].phasemaps # app.objs[i].phasemaps
      /\ app.dicts[app.objs[i].phasemaps]["mdl"] =
           (IF app.objs[i].def_mdl_phasemap THEN app.objs[i].mdl ELSE "none")
      /\ app.dicts[app.objs[i].phasemaps]["extra"] = app.objs[i].extra

\* ------------------------------------------- search.py: SimpleProblem
\* the values x0 is called with
XValues == 0..3

\* the callables of the user: f1 is x0 + 1 and fails at 2, g1 is 2 * x0 and
\* fails at 0
CallableFails(name, x) == IF name = "f1" THEN x = 2 ELSE x = 0

Callable(name, x) == IF name = "f1" THEN x + 1 ELSE 2 * x

\* the constraint g1: 2 * x0 less than 1
G1 == Constraint(1, "less", FALSE)

\* obj.update(value) of f1 and of g1
UpdatedValue(name, value) ==
  IF name = "f1" THEN <<value>> ELSE <<con_from_value(G1, value).value>>

\* new_x(*x): "not self.current_x() == list(x)"
new_x(st, x) == st.x # <<x>>

\* SimpleProblem.update_objectives(*x): update_variables(*x), then the
\* callables of {**self.objectives, **self.constraints} in order; an
\* exception of a callable ends the call
simple_update_objectives(st, x) ==
  LET st0 == [st EXCEPT !.x = <<x>>]
      upd[k \in 0..2] ==
        IF k = 0 THEN st0
        ELSE LET name == <<"f1", "g1">>[k]
                 sk == upd[k - 1]
             IN IF sk.last.raised THEN sk
                ELSE IF CallableFails(name, x) THEN [sk EXCEPT !.last.raised = TRUE]
                ELSE IF name = "f1"
                THEN [sk EXCEPT !.f1 = UpdatedValue(name, Callable(name, x)),
                                !.last.evaluated = Append(sk.last.evaluated, name)]
                ELSE [sk EXCEPT !.g1 = UpdatedValue(name, Callable(name, x)),
                                !.last.evaluated = Append(sk.last.evaluated, name)]
  IN upd[2]

\* call_objective(*x, objective='f1'), call_constraint(*x, constraint='g1')
\* and call_outputs(*x): "if self.new_x(*x): self.update_objectives(*x)"
SimpleCall(op, x) ==
  /\ simp.calls < MaxProblemCalls
  /\ LET st == [simp EXCEPT !.calls = simp.calls + 1,
                            !.last = [op |-> op, x |-> x, new |-> new_x(simp, x),
                                      raised |-> FALSE, evaluated |-> <<>>,
                                      returned |-> <<>>]]
         st1 == IF new_x(simp, x) THEN simple_update_objectives(st, x) ELSE st
     IN simp' = [st1 EXCEPT !.last.returned =
                   IF st1.last.raised THEN <<>>
                   ELSE IF op = "call_objective" THEN <<st1.f1>>
                   ELSE IF op = "call_constraint" THEN <<st1.g1>>
                   ELSE <<st1.f1, st1.g1>>]
  /\ UNCHANGED <<modelvars, callvars, aux, fp, rof, pa, app, scn>>

NextSimple ==
  \E op \in {"call_objective", "call_constraint", "call_outputs"}, x \in XValues : SimpleCall(op, x)

SpecSimple == InitModelCopy /\ [][NextSimple]_vars

\* C38: the cached values are those of the current variables: a call at the
\* current x evaluates nothing, a call at another x evaluates every objective
\* and constraint once, and a failed evaluation does not leave the variables
\* at the new x with values of the old one
C38_CacheMatchesVariables ==
  /\ simp.last.op # "none" /\ ~simp.last.new => simp.last.evaluated = <<>>
  /\ simp.last.op # "none" /\ simp.last.new /\ ~simp.last.raised =>
       simp.last.evaluated = <<"f1", "g1">>
  /\ \A x \in XValues :
       simp.x = <<x>> =>
         /\ simp.f1 # <<>> => simp.f1 = UpdatedValue("f1", Callable("f1", x))
         /\ simp.g1 # <<>> => simp.g1 = UpdatedValue("g1", Callable("g1", x))

\* --------------------------------------- search.py: ProblemArchitecture
\* the names problems are added under; every problem has one local variable
\* and one objective f1, and takes the objective of the problem before it
\* as an input
ProbNames == {"p1", "p2", "p3"}

\* the values handed to update_problem as x
XLoc == {1, 2}

\* [*self.problems].index(probname)
ProbIndex(st, p) == CHOOSE i \in 1..Len(st.problems) : st.problems[i] = p

\* mutant: only the next problem counts as downstream
get_downstream_probs_NextOnly(st, p) ==
  SubSeq(st.problems, ProbIndex(st, p) + 1,
         IF ProbIndex(st, p) + 1 <= Len(st.problems) THEN ProbIndex(st, p) + 1 ELSE Len(st.problems))

\* get_downstream_probs(probname): probs[ind+1:]
get_downstream_probs(st, p) == SubSeq(st.problems, ProbIndex(st, p) + 1, Len(st.problems))

\* get_upstream_probs(probname): probs[:ind]
get_upstream_probs(st, p) == SubSeq(st.problems, 1, ProbIndex(st, p) - 1)

\* find_inconsistent_upstream(probname)
find_inconsistent_upstream(st, p) ==
  SelectSeq(get_upstream_probs(st, p), LAMBDA u : ~st.consistent[u])

\* update_downstream_consistency(probname)
update_downstream_consistency(st, p) ==
  [st EXCEPT !.consistent = [q \in ProbNames |->
      IF \E i \in 1..Len(get_downstream_probs(st, p)) : get_downstream_probs(st, p)[i] = q
      THEN FALSE ELSE st.consistent[q]]]

\* np.nan
NaN == <<>>

\* update_objectives(probname), update_constraints(probname): the value of
\* the problem if it is consistent, NaN if not
ArchUpdateObjectives(st, p) ==
  [st EXCEPT !.objectives[p] = IF st.consistent[p] THEN st.value[p] ELSE NaN]

\* self.problems[probname].update_objectives(*x_inputs): the objective of
\* the problem at its local variable and the output of the problem before it
ProblemValue(st, p) ==
  LET i == ProbIndex(st, p)
      input == IF i = 1 \/ st.value[st.problems[IF i = 1 THEN 1 ELSE i - 1]] = NaN
               THEN 0 ELSE st.value[st.problems[i - 1]][1]
  IN <<(st.xloc[p] + input) % 3>>

\* update_problem(probname, *x); x = 0 stands for a call without x
RECURSIVE update_problem(_, _, _)
update_problem(st, p, x) ==
  LET inconsistent_upstream == find_inconsistent_upstream(st, p)
      upstream[k \in 0..Len(inconsistent_upstream)] ==
        IF k = 0 THEN st ELSE update_problem(upstream[k - 1], inconsistent_upstream[k], 0)
      st1 == upstream[Len(inconsistent_upstream)]
      st2 == IF x = 0 THEN st1 ELSE [st1 EXCEPT !.xloc[p] = x]
      st3 == [st2 EXCEPT !.value[p] = ProblemValue(st2, p),
                         !.consistent[p] = TRUE,
                         !.evals = Append(st2.evals, p)]
  IN update_downstream_consistency(ArchUpdateObjectives(st3, p), p)

\* add_problem(name, problem): consistent if it is the first problem
AddProblem(name) ==
  /\ name \notin Range(pa.problems)
  /\ pa' = ArchUpdateObjectives(
             [pa EXCEPT !.problems = Append(pa.problems, name),
                        !.consistent[name] = (pa.problems = <<>>),
                        !.evals = <<>>,
                        !.before = pa.consistent,
                        !.last = [op |-> "add_problem", name |-> name]], name)
  /\ UNCHANGED <<modelvars, callvars, aux, fp, rof, simp, app, scn>>

\* update_problem(probname, *x) called by the user or by a callable
UpdateProblem(p, x) ==
  /\ p \in Range(pa.problems)
  /\ pa' = update_problem([pa EXCEPT !.evals = <<>>, !.before = pa.consistent,
                                     !.last = [op |-> "update_problem", name |-> p]], p, x)
  /\ UNCHANGED <<modelvars, callvars, aux, fp, rof, simp, app, scn>>

NextArchitecture ==
  \/ \E name \in ProbNames : AddProblem(name)
  \/ \E p \in ProbNames, x \in XLoc \cup {0} : UpdateProblem(p, x)

SpecArchitecture == InitModelCopy /\ [][NextArchitecture]_vars

C37_ArchitectureValueFollowsConsistency ==
  \A i \in 1..Len(pa.problems) :
    pa.objectives[pa.problems[i]] =
      (IF pa.consistent[pa.problems[i]] THEN pa.value[pa.problems[i]] ELSE NaN)

====
